---- MODULE Spec2Model ----
(***************************************************************************)
(* Multi-agent workflow orchestrator (package orchestrator): the routing   *)
(* engine with its error classifier, and the workflow controller loop of   *)
(* WorkflowOrchestrator.ExecuteWorkflow.                                   *)
(*                                                                         *)
(* Texts are TLA+ strings handled character by character, so that          *)
(* strings.ToLower, strings.Contains and the regular expressions of the    *)
(* error patterns are computed the way the Go code computes them.          *)
(***************************************************************************)
EXTENDS Integers, Sequences, FiniteSets, TLC

(***************************************************************************)
(* Agent roles (internal/agent/types.go).                                  *)
(***************************************************************************)
AgentRoleEM == "engineering_manager"
AgentRoleEngineer == "senior_engineer"
AgentRoleQA == "senior_qa"
AgentRoleTechLead == "senior_tech_lead"
AgentRoles == {AgentRoleEM, AgentRoleEngineer, AgentRoleQA, AgentRoleTechLead}

(***************************************************************************)
(* Go standard library text functions used by the routing engine.          *)
(***************************************************************************)
CharAt(s, i) == SubSeq(s, i, i)

upperLetters == "ABCDEFGHIJKLMNOPQRSTUVWXYZ"
lowerLetters == "abcdefghijklmnopqrstuvwxyz"
digitChars == "0123456789"

\* strings.Contains(s, substr)
Contains(s, substr) ==
    \E str \in {s} :
        \E i \in 1..(Len(str) - Len(substr) + 1) :
            SubSeq(str, i, i + Len(substr) - 1) = substr

\* the lower-case letter of each upper-case letter
lowerOf == [c \in {CharAt(upperLetters, k) : k \in 1..26} |->
              CharAt(lowerLetters, CHOOSE k \in 1..26 : CharAt(upperLetters, k) = c)]

ToLowerChar(c) == IF c \in DOMAIN lowerOf THEN lowerOf[c] ELSE c

\* strings.ToLower(s)
ToLower(s) ==
    CHOOSE folded \in
        {LET lower[i \in 0..Len(str)] ==
                 IF i = 0 THEN "" ELSE lower[i - 1] \o ToLowerChar(CharAt(str, i))
         IN  lower[Len(str)] : str \in {s}} : TRUE

\* returns true when some element of the pattern list occurs in text
ContainsAny(text, patterns) ==
    \E str \in {text} : \E k \in 1..Len(patterns) : Contains(str, patterns[k])

(***************************************************************************)
(* regexp: a pattern is a list of alternatives, an alternative a list of   *)
(* atoms.  An atom is a literal, or a repeated character class: "s" is \s, *)
(* "w" is \w, "sw" is [\s\w], "dot" is . (any character but newline);      *)
(* min is 0 for * and 1 for +.  All patterns carry (?i): their literals    *)
(* are written in lower case and matched against the lower-cased text.     *)
(***************************************************************************)
Lit(l) == [kind |-> "lit", lit |-> l, min |-> 0]
Star(cls) == [kind |-> cls, lit |-> "", min |-> 0]
Plus(cls) == [kind |-> cls, lit |-> "", min |-> 1]

spaceChars == {" ", "\t", "\n", "\f", "\r"}
wordChars ==
    {CharAt(lowerLetters, k) : k \in 1..26} \cup {CharAt(upperLetters, k) : k \in 1..26}
        \cup {CharAt(digitChars, k) : k \in 1..10} \cup {"_"}

InClass(c, cls) ==
    CASE cls = "s" -> c \in spaceChars
      [] cls = "w" -> c \in wordChars
      [] cls = "sw" -> c \in spaceChars \/ c \in wordChars
      [] cls = "dot" -> c # "\n"

\* the atoms of an alternative match a prefix of text that starts at start;
\* m[k, pos]: the atoms k.. match a prefix of text that starts at pos
MatchHere(atoms, text, start) ==
    LET m[k \in 1..(Len(atoms) + 1), pos \in 1..(Len(text) + 1)] ==
            IF k > Len(atoms) THEN TRUE
            ELSE LET a == atoms[k] IN
                 IF a.kind = "lit"
                 THEN /\ pos + Len(a.lit) - 1 <= Len(text)
                      /\ SubSeq(text, pos, pos + Len(a.lit) - 1) = a.lit
                      /\ m[k + 1, pos + Len(a.lit)]
                 ELSE \E n \in a.min..(Len(text) - pos + 1) :
                         /\ \A j \in pos..(pos + n - 1) : InClass(CharAt(text, j), a.kind)
                         /\ m[k + 1, pos + n]
    IN  m[1, start]

\* regexp.Regexp.MatchString with the flag (?i): an unanchored match of some
\* alternative
MatchString(pattern, text) ==
    \E folded \in {ToLower(text)} :
        \E alt \in 1..Len(pattern) :
            \E pos \in 1..(Len(folded) + 1) : MatchHere(pattern[alt], folded, pos)

(***************************************************************************)
(* RoutingEngine.initializeErrorPatterns                                   *)
(***************************************************************************)
errorPatterns == <<
    [Pattern |-> << <<Lit("undefined:"), Star("s"), Plus("w")>>,
                    <<Lit("undeclared name:"), Star("s"), Plus("w")>>,
                    <<Lit("cannot find"), Star("sw"), Lit(":"), Star("s"), Plus("w")>> >>,
     Category |-> "undefined_symbol", Severity |-> 4,
     Suggestions |-> <<"Check import statements", "Verify function/variable names",
                       "Add missing declarations">>],
    [Pattern |-> << <<Lit("syntax error")>>,
                    <<Lit("unexpected "), Plus("w")>>,
                    <<Lit("expected "), Plus("w")>> >>,
     Category |-> "syntax_error", Severity |-> 4,
     Suggestions |-> <<"Check brackets, braces, and parentheses", "Verify function signatures",
                       "Check for missing semicolons or commas">>],
    [Pattern |-> << <<Lit("import cycle")>>, <<Lit("circular import")>>,
                    <<Lit("cyclic import")>> >>,
     Category |-> "import_cycle", Severity |-> 3,
     Suggestions |-> <<"Restructure package dependencies", "Create interface abstraction",
                       "Move shared code to separate package">>],
    [Pattern |-> << <<Lit("module"), Plus("s"), Plus("w"), Plus("s"), Lit("not found")>>,
                    <<Lit("no such file or directory")>>,
                    <<Lit("package "), Plus("w"), Lit(" is not in goroot")>> >>,
     Category |-> "missing_dependency", Severity |-> 3,
     Suggestions |-> <<"Run 'go mod tidy'", "Add missing dependency with 'go get'",
                       "Check module path in go.mod">>],
    [Pattern |-> << <<Lit("permission denied")>>, <<Lit("access denied")>>,
                    <<Lit("operation not permitted")>> >>,
     Category |-> "permission_error", Severity |-> 3,
     Suggestions |-> <<"Check file permissions", "Verify write access to target directory",
                       "Run with appropriate privileges">>],
    [Pattern |-> << <<Lit("test failed")>>, <<Lit("assertion failed")>>,
                    <<Lit("panic: test timed out")>> >>,
     Category |-> "test_failure", Severity |-> 2,
     Suggestions |-> <<"Review test logic and assertions", "Check test data and setup",
                       "Verify function behavior">>],
    [Pattern |-> << <<Lit("no tests to run")>>, <<Lit("no test files")>>,
                    <<Lit("testing: warning: no tests to run")>> >>,
     Category |-> "no_tests", Severity |-> 1,
     Suggestions |-> <<"Create test files with *_test.go pattern",
                       "Add test functions starting with 'Test'",
                       "Check test file naming conventions">>],
    [Pattern |-> << <<Lit("panic:")>>, <<Lit("runtime error")>>,
                    <<Lit("nil pointer dereference")>>, <<Lit("index out of range")>> >>,
     Category |-> "runtime_error", Severity |-> 4,
     Suggestions |-> <<"Add nil checks", "Validate array/slice bounds", "Add error handling">>],
    [Pattern |-> << <<Lit("type "), Plus("w"), Lit(" has no field "), Plus("w")>>,
                    <<Lit("cannot use "), Plus("w"), Lit(" as "), Plus("w"), Lit(" value")>> >>,
     Category |-> "type_error", Severity |-> 3,
     Suggestions |-> <<"Check struct field names", "Verify type compatibility",
                       "Add type conversions where needed">>],
    [Pattern |-> << <<Lit("connection refused")>>, <<Lit("timeout")>>,
                    <<Lit("no route to host")>>,
                    <<Lit("dial tcp"), Star("dot"), Lit("refused")>> >>,
     Category |-> "network_error", Severity |-> 2,
     Suggestions |-> <<"Check service availability", "Verify network connectivity",
                       "Review endpoint URLs and ports">>],
    [Pattern |-> << <<Lit("fatal: not a git repository")>>,
                    <<Lit("git"), Star("dot"), Lit("error")>>,
                    <<Lit("merge conflict")>> >>,
     Category |-> "git_error", Severity |-> 2,
     Suggestions |-> <<"Initialize git repository if needed", "Resolve merge conflicts",
                       "Check git configuration">>] >>

(***************************************************************************)
(* RoutingEngine.analyzeErrorContext.  The range loop keeps the first      *)
(* matching pattern and replaces it only by a strictly more severe one     *)
(* (loop variable per iteration, the semantics of Go 1.22 and later).      *)
(***************************************************************************)
\* variant: a later pattern of equal severity replaces the match
betterMatchOrEqual(pattern, bestMatch) ==
    bestMatch = 0 \/ pattern.Severity >= errorPatterns[bestMatch].Severity
betterMatch(pattern, bestMatch) ==
    bestMatch = 0 \/ pattern.Severity > errorPatterns[bestMatch].Severity

\* index of the pattern bestMatch points to after the loop (0: bestMatch == nil);
\* best[i] is bestMatch after the first i patterns
bestMatchLoop(errorText) ==
    LET best[i \in 0..Len(errorPatterns)] ==
            IF i = 0 THEN 0
            ELSE CHOOSE next \in
                    {IF MatchString(errorPatterns[i].Pattern, errorText)
                          /\ betterMatch(errorPatterns[i], bestMatch)
                     THEN i ELSE bestMatch : bestMatch \in {best[i - 1]}} : TRUE
    IN  best[Len(errorPatterns)]

errorTextOf(resp) == ToLower(resp.Error \o " " \o resp.BuildOutput \o " " \o resp.Message)

errorContextOf(bestMatch) ==
    IF bestMatch = 0
    THEN [Category |-> "unknown", Severity |-> 2,
          Suggestions |-> <<"Review error logs", "Check implementation logic">>,
          IsRecoverable |-> TRUE, RequiresHelp |-> FALSE]
    ELSE [Category |-> errorPatterns[bestMatch].Category,
          Severity |-> errorPatterns[bestMatch].Severity,
          Suggestions |-> errorPatterns[bestMatch].Suggestions,
          IsRecoverable |-> errorPatterns[bestMatch].Severity <= 3,
          RequiresHelp |-> errorPatterns[bestMatch].Severity >= 3
                            /\ errorPatterns[bestMatch].Category
                                  \in {"missing_dependency", "permission_error",
                                       "network_error"}]

analyzeErrorContext(resp) ==
    CHOOSE errorCtx \in
        {errorContextOf(bestMatch) :
            bestMatch \in {bestMatchLoop(errorText) : errorText \in {errorTextOf(resp)}}} :
        TRUE

(***************************************************************************)
(* Helper predicates on agent results.                                     *)
(***************************************************************************)
\* variant: the file name is compared without lower-casing it
isTestFileExact(filename) ==
    ContainsAny(filename,
                <<"_test.go", ".test.js", ".test.ts", ".spec.js", ".spec.ts",
                  "test_", "_test.py", "/test/", "/tests/">>)
isTestFile(filename) ==
    ContainsAny(ToLower(filename),
                <<"_test.go", ".test.js", ".test.ts", ".spec.js", ".spec.ts",
                  "test_", "_test.py", "/test/", "/tests/">>)

hasTestsAdded(resp) ==
    \E k \in 1..Len(resp.FilesModified) : isTestFile(resp.FilesModified[k])

isNonTestableCode(resp) ==
    /\ resp.Message # ""
    /\ ContainsAny(ToLower(resp.Message),
                   <<"non-testable", "cannot test", "untestable", "no tests needed",
                     "testing not applicable", "manual testing only", "ui only",
                     "configuration only">>)

isQualityIssue(resp) ==
    /\ resp.Error # ""
    /\ ContainsAny(ToLower(resp.Error),
                   <<"code quality", "lint", "format", "style", "naming convention",
                     "complexity", "duplication", "security", "performance",
                     "maintainability">>)

isArchitectureIssue(resp) ==
    /\ resp.Error # ""
    /\ ContainsAny(ToLower(resp.Error),
                   <<"architecture", "design pattern", "separation of concerns", "coupling",
                     "cohesion", "dependency injection", "interface design", "api design",
                     "structure">>)

\* variant: the markers are compared without lower-casing the error text
isStructuredRejectionExact(resp) ==
    /\ resp.Error # ""
    /\ ContainsAny(resp.Error,
                   <<"rejection_reason:", "route_to: engineering_manager",
                     "requirements_not_met", "security_concerns",
                     "unnecessary_duplication", "pattern_deviation">>)
isStructuredRejection(resp) ==
    /\ resp.Error # ""
    /\ ContainsAny(ToLower(resp.Error),
                   <<"rejection_reason:", "route_to: engineering_manager",
                     "requirements_not_met", "security_concerns",
                     "unnecessary_duplication", "pattern_deviation">>)

(***************************************************************************)
(* RoutingEngine.initializeRules: the rule table in declaration order.     *)
(* Condition is the rule's condition closure applied to resp.            *)
(***************************************************************************)
rulesFor(resp, errorCtx) ==
    << [FromAgent |-> AgentRoleEM, Condition |-> resp.Success,
        NextAgent |-> AgentRoleEngineer,
        Reason |-> "Plan approved, starting implementation", Priority |-> 10],
       [FromAgent |-> AgentRoleEM, Condition |-> ~resp.Success,
        NextAgent |-> AgentRoleEM,
        Reason |-> "Planning failed, retrying", Priority |-> 5],
       [FromAgent |-> AgentRoleEngineer,
        Condition |-> resp.Success /\ Len(resp.FilesModified) > 0,
        NextAgent |-> AgentRoleQA,
        Reason |-> "Implementation complete, needs testing", Priority |-> 20],
       [FromAgent |-> AgentRoleEngineer,
        Condition |-> /\ resp.Success
                      /\ Len(resp.FilesModified) = 0
                      /\ ~Contains(ToLower(resp.Message), "failed")
                      /\ ~Contains(ToLower(resp.Error), "failed"),
        NextAgent |-> AgentRoleTechLead,
        Reason |-> "Task completed without file changes, skip to quality review",
        Priority |-> 19],
       [FromAgent |-> AgentRoleEngineer,
        Condition |-> IF resp.Success THEN FALSE
                      ELSE errorCtx.Category \in {"syntax_error", "undefined_symbol",
                                                  "type_error", "import_cycle"},
        NextAgent |-> AgentRoleEngineer,
        Reason |-> "Critical build errors detected, continuing implementation fixes",
        Priority |-> 18],
       [FromAgent |-> AgentRoleEngineer,
        Condition |-> IF resp.Success THEN FALSE
                      ELSE errorCtx.Category \in {"missing_dependency", "permission_error"},
        NextAgent |-> AgentRoleEM,
        Reason |-> "Dependency or permission issues detected, need planning support",
        Priority |-> 15],
       [FromAgent |-> AgentRoleEngineer,
        Condition |-> IF resp.Success THEN FALSE
                      ELSE errorCtx.Category = "runtime_error" /\ errorCtx.Severity >= 3,
        NextAgent |-> AgentRoleEngineer,
        Reason |-> "Runtime errors detected, applying targeted fixes", Priority |-> 16],
       [FromAgent |-> AgentRoleEngineer,
        Condition |-> IF resp.Success THEN FALSE
                      ELSE errorCtx.Category \in {"network_error", "git_error"},
        NextAgent |-> AgentRoleEM,
        Reason |-> "External system issues detected, need guidance", Priority |-> 12],
       [FromAgent |-> AgentRoleEngineer, Condition |-> ~resp.Success,
        NextAgent |-> AgentRoleEM,
        Reason |-> "Implementation failed, need replanning", Priority |-> 5],
       [FromAgent |-> AgentRoleQA,
        Condition |-> resp.Success /\ hasTestsAdded(resp),
        NextAgent |-> AgentRoleTechLead,
        Reason |-> "Tests added and passing, ready for quality review", Priority |-> 20],
       [FromAgent |-> AgentRoleQA,
        Condition |-> IF resp.Success THEN FALSE
                      ELSE errorCtx.Category = "test_failure" /\ errorCtx.Severity >= 2,
        NextAgent |-> AgentRoleEngineer,
        Reason |-> "Significant test failures found, implementation needs fixes",
        Priority |-> 17],
       [FromAgent |-> AgentRoleQA,
        Condition |-> IF resp.Success THEN FALSE
                      ELSE errorCtx.Category = "no_tests" \/ errorCtx.Severity <= 1,
        NextAgent |-> AgentRoleQA,
        Reason |-> "Missing or insufficient tests, continuing test development",
        Priority |-> 10],
       [FromAgent |-> AgentRoleQA,
        Condition |-> ~resp.Success /\ isNonTestableCode(resp),
        NextAgent |-> AgentRoleTechLead,
        Reason |-> "Code determined non-testable, skip to quality review", Priority |-> 10],
       [FromAgent |-> AgentRoleQA, Condition |-> ~resp.Success,
        NextAgent |-> AgentRoleEM,
        Reason |-> "QA process failed, need guidance", Priority |-> 5],
       [FromAgent |-> AgentRoleTechLead, Condition |-> resp.Success,
        NextAgent |-> AgentRoleTechLead,
        Reason |-> "Quality review passed, workflow complete", Priority |-> 20],
       [FromAgent |-> AgentRoleTechLead,
        Condition |-> ~resp.Success /\ isQualityIssue(resp),
        NextAgent |-> AgentRoleEngineer,
        Reason |-> "Quality issues found, need implementation fixes", Priority |-> 15],
       [FromAgent |-> AgentRoleTechLead,
        Condition |-> ~resp.Success /\ isStructuredRejection(resp),
        NextAgent |-> AgentRoleEM,
        Reason |-> "Tech Lead structured rejection - routing to EM as requested",
        Priority |-> 20],
       [FromAgent |-> AgentRoleTechLead,
        Condition |-> ~resp.Success /\ isArchitectureIssue(resp),
        NextAgent |-> AgentRoleEM,
        Reason |-> "Architecture concerns, need replanning", Priority |-> 15],
       [FromAgent |-> AgentRoleTechLead, Condition |-> ~resp.Success,
        NextAgent |-> AgentRoleEM,
        Reason |-> "Tech lead review failed, need guidance", Priority |-> 5] >>

\* the table with the conditions applied to resp and its error context
\* variant: the table without the rules of priority 5
rulesAbovePriorityFive(resp) ==
    CHOOSE rs \in {SelectSeq(rulesFor(resp, errorCtx), LAMBDA rule : rule.Priority > 5) :
                      errorCtx \in {analyzeErrorContext(resp)}} : TRUE
rules(resp) ==
    CHOOSE rs \in {rulesFor(resp, errorCtx) : errorCtx \in {analyzeErrorContext(resp)}} : TRUE

(***************************************************************************)
(* RoutingEngine.RouteAgent: scan the rules in order, keep the first       *)
(* applicable one and replace it only by one of strictly higher priority.  *)
(* The decision carries err = TRUE when no rule matched.                   *)
(***************************************************************************)
\* variant: an applicable rule of lower priority replaces the decision
lowerDecision(rs, i, bestDecision) ==
    bestDecision = 0 \/ rs[i].Priority < rs[bestDecision].Priority
betterDecision(rs, i, bestDecision) ==
    bestDecision = 0 \/ rs[i].Priority > rs[bestDecision].Priority

\* variant: the last applicable rule wins, whatever its priority
routeLoopLast(rs, currentAgent) ==
    LET best[i \in 0..Len(rs)] ==
            IF i = 0 THEN 0
            ELSE IF rs[i].FromAgent = currentAgent /\ rs[i].Condition
                 THEN i ELSE best[i - 1]
    IN  best[Len(rs)]

\* index of the rule bestDecision was built from after the loop (0: nil);
\* best[i] is bestDecision after the first i rules
routeLoop(rs, currentAgent) ==
    LET best[i \in 0..Len(rs)] ==
            IF i = 0 THEN 0
            ELSE CHOOSE next \in
                    {IF rs[i].FromAgent = currentAgent /\ rs[i].Condition
                          /\ betterDecision(rs, i, bestDecision)
                     THEN i ELSE bestDecision : bestDecision \in {best[i - 1]}} : TRUE
    IN  best[Len(rs)]

decisionOf(rs, bestDecision) ==
    IF bestDecision = 0
    THEN [NextAgent |-> "", Reason |-> "", Priority |-> 0, err |-> TRUE]
    ELSE [NextAgent |-> rs[bestDecision].NextAgent, Reason |-> rs[bestDecision].Reason,
          Priority |-> rs[bestDecision].Priority, err |-> FALSE]

\* lines 393-416: the decision RouteAgent returns for the result of the role
\* variant: a later applicable rule of equal priority replaces the decision
RouteAgentLaterTie(currentAgent, resp) ==
    CHOOSE decision \in
        UNION {{decisionOf(rs, bestDecision) : bestDecision \in
                  {LET best[i \in 0..Len(rs)] ==
                           IF i = 0 THEN 0
                           ELSE CHOOSE next \in
                                  {IF /\ rs[i].FromAgent = currentAgent
                                      /\ rs[i].Condition
                                      /\ (b = 0 \/ rs[i].Priority >= rs[b].Priority)
                                   THEN i ELSE b : b \in {best[i - 1]}} : TRUE
                   IN  best[Len(rs)]}} :
                  rs \in {rules(resp)}} : TRUE
RouteAgent(currentAgent, resp) ==
    CHOOSE decision \in
        UNION {{decisionOf(rs, bestDecision) : bestDecision \in {routeLoop(rs, currentAgent)}} :
                  rs \in {rules(resp)}} : TRUE

(***************************************************************************)
(* Bounds of the model.                                                    *)
(***************************************************************************)
\* largest max_iterations tried for the engineer
MaxEngineerIterations == 4
\* error recoveries taken in one run
MaxRecoveries == 3
\* minutes a long agent invocation takes
MaxStepMinutes == 16
\* tool operations of one workflow run
MaxOperations == 2

(***************************************************************************)
(* Configuration (internal/config/config.go).  Agents is the map of the    *)
(* configured roles; a role may be absent from it.                         *)
(***************************************************************************)
getDefaultWorkflowConfig ==
    [Workflow |-> [MaxTotalIterations |-> 7, TimeoutMinutes |-> 15],
     Agents |-> [r \in AgentRoles |->
                   [MaxIterations |-> IF r = AgentRoleEngineer THEN 3 ELSE 2]]]

\* the default configuration, the same with another engineer maximum, and
\* configurations from a file that leaves a role out
Configs ==
    {[getDefaultWorkflowConfig EXCEPT !.Agents[AgentRoleEngineer].MaxIterations = e] :
        e \in 1..MaxEngineerIterations}
    \cup {[getDefaultWorkflowConfig EXCEPT
              !.Agents = [r \in AgentRoles \ {AgentRoleEM} |-> @[r]]]}

\* a configuration and the roles RegisterAgent was called for before the run
Deployments ==
    {[config |-> c, agents |-> AgentRoles] : c \in Configs}
    \cup {[config |-> getDefaultWorkflowConfig, agents |-> AgentRoles \ {AgentRoleQA}]}

(***************************************************************************)
(* Agent results (agent.ImplementFeatureResponse) and invocation errors.   *)
(***************************************************************************)
Response(success, message, files, output, nextSteps, error) ==
    [Success |-> success, Message |-> message, FilesModified |-> files,
     CommandsExecuted |-> <<>>, BuildOutput |-> output, NextSteps |-> nextSteps,
     Error |-> error]

\* texts for the Error field
ErrorTexts ==
    {"", "undefined: foo", "Undefined:  bar; syntax error", "import cycle not allowed",
     "permission denied", "go test failed", "no test files", "panic: index out of range",
     "dial tcp 10.0.0.1: refused", "git push error", "cannot use x as int value",
     "REJECTION_REASON: security_concerns ROUTE_TO: engineering_manager",
     "Pattern_Deviation breaks the architecture", "poor code quality and structure",
     "lint", "architecture", "Rejection_Reason: naming convention"}
MessageTexts == {"", "Work FAILED", "code is untestable", "testing: warning: no tests to run"}
OutputTexts == {"", "timeout\nundefined: x", "merge conflict"}
FileLists == {<<>>, <<"main.go">>, <<"pkg/Main_Test.go">>}

\* the results the routing engine and the classifier are applied to
Outcomes ==
    {Response(s, m, f, o, "", e) :
        s \in BOOLEAN, m \in MessageTexts, f \in FileLists, o \in OutputTexts,
        e \in ErrorTexts}

\* the results a step of the role returns in a workflow run
StepOutcomes(role) ==
    IF role = AgentRoleEM
    THEN {Response(TRUE, "plan ready", <<>>, "", "implement the handler", ""),
          Response(FALSE, "", <<>>, "", "", "no plan")}
    ELSE IF role = AgentRoleEngineer
    THEN {Response(TRUE, "", <<"main.go">>, "", "", ""),
          Response(FALSE, "", <<>>, "", "", "undefined: foo"),
          Response(FALSE, "", <<>>, "", "", "permission denied")}
    ELSE IF role = AgentRoleQA
    THEN {Response(TRUE, "", <<"pkg/Main_Test.go">>, "", "review the change", ""),
          Response(TRUE, "", <<>>, "", "", ""),
          Response(FALSE, "", <<>>, "", "", "go test failed")}
    ELSE {Response(TRUE, "approved", <<>>, "", "", ""),
          Response(FALSE, "", <<>>, "", "fix it",
                   "REJECTION_REASON: security_concerns ROUTE_TO: engineering_manager")}

\* the results of the runs without invocation errors: with an engineer
\* result without file changes and a TechLead result that names quality
\* issues a run comes back to the TechLead; the manager and the engineer
\* can also fail
ReviewOutcomes(role) ==
    IF role = AgentRoleEM
    THEN {Response(TRUE, "plan ready", <<>>, "", "implement the handler", ""),
          Response(FALSE, "", <<>>, "", "", "no plan")}
    ELSE IF role = AgentRoleEngineer
    THEN {Response(TRUE, "", <<"main.go">>, "", "", ""),
          Response(TRUE, "", <<>>, "", "", ""),
          Response(FALSE, "", <<>>, "", "", "undefined: foo")}
    ELSE IF role = AgentRoleQA
    THEN {Response(TRUE, "", <<"pkg/Main_Test.go">>, "", "review the change", "")}
    ELSE {Response(TRUE, "approved", <<>>, "", "", ""),
          Response(FALSE, "", <<>>, "", "", "poor code quality and structure")}

\* the errors an invocation of the role's ImplementFeature returns instead of
\* a result
StepErrors(role) ==
    IF role = AgentRoleEM
    THEN {"LLM connection refused", "invalid config"}
    ELSE IF role = AgentRoleEngineer
    THEN {"Command Restricted: connection timeout", "command rm not registered",
          "unexpected EOF"}
    ELSE IF role = AgentRoleQA
    THEN {"restricted directory", "open x: no such file; context canceled",
          "failed to get git diff: exit status 128"}
    ELSE {"context deadline exceeded", "failed to get git diff: exit status 128"}

NoResult == [none |-> TRUE]

\* the errors the Generate call of the LLM client fails with
LLMErrors == {"connection refused"}

\* what ImplementFeature of each of the four agents returns, with a nil
\* error, when the Generate call fails
GenerateFailed(llmErr) ==
    Response(FALSE, "", <<>>, "", "", "LLM generation failed: " \o llmErr)

VARIABLES
    config,       \* wo.config
    agents,       \* roles in wo.agents
    state,        \* WorkflowState
    result,       \* WorkflowResult
    agentResult,  \* result of the last agent invocation, NoResult before the first
    agentErr,     \* error text of the last agent invocation, "" for nil
    invocations,  \* calls of executeCurrentAgent so far
    elapsed,      \* minutes since state.StartTime
    pc,           \* "loop": at the top of the for loop, "finalize": after break, "done"
    documented,   \* calls of DocumentTask on the manager
    documentErr,  \* error text the last DocumentTask call returned, "" for nil
    steps,        \* the agent invocations of the run: role, returned result and error
    toolSet,      \* the ToolSet all runs of one server share
    runs,         \* the workflow requests a server handles concurrently
    engineer,     \* the local variables of one SeniorEngineer.ImplementFeature call
    call,         \* arguments of a direct call of the routing engine
    ret           \* its return values

vars == <<config, agents, state, result, agentResult, agentErr, invocations, elapsed, pc,
          documented, documentErr, steps, toolSet, runs, engineer, call, ret>>


(***************************************************************************)
(* The routing engine applied to the results of the agent steps, computed  *)
(* once for all runs.                                                      *)
(***************************************************************************)
routeTable ==
    {[currentAgent |-> a, result |-> r, decision |-> RouteAgent(a, r)] :
        a \in AgentRoles,
        r \in UNION {StepOutcomes(b) \cup ReviewOutcomes(b) : b \in AgentRoles}
                 \cup {GenerateFailed(e) : e \in LLMErrors}}

\* WorkflowOrchestrator.routeToNextAgent
routeToNextAgent(st, res) ==
    (CHOOSE e \in routeTable : e.currentAgent = st.CurrentAgent /\ e.result = res).decision

(***************************************************************************)
(* WorkflowOrchestrator helpers.                                           *)
(***************************************************************************)
totalIterations(st) ==
    st.IterationCounts[AgentRoleEM] + st.IterationCounts[AgentRoleEngineer]
        + st.IterationCounts[AgentRoleQA] + st.IterationCounts[AgentRoleTechLead]

getMaxIterationsForAgent(cfg, role) ==
    IF role \in DOMAIN cfg.Agents THEN cfg.Agents[role].MaxIterations ELSE 2

\* line 254: the sum of the iteration counts has reached the maximum
\* variant: the total limit fires one iteration later
totalLimitExceeded(cfg, st) == totalIterations(st) > cfg.Workflow.MaxTotalIterations
totalLimitReached(cfg, st) == totalIterations(st) >= cfg.Workflow.MaxTotalIterations

\* variant: the per-agent limit fires one iteration later
agentLimitExceeded(cfg, st) ==
    st.IterationCounts[st.CurrentAgent] > getMaxIterationsForAgent(cfg, st.CurrentAgent)
agentLimitReached(cfg, st) ==
    st.IterationCounts[st.CurrentAgent] >= getMaxIterationsForAgent(cfg, st.CurrentAgent)

\* checkIterationLimits: the error text, "" for nil
checkIterationLimits(cfg, st) ==
    IF totalLimitReached(cfg, st)
    THEN "maximum total iterations (" \o ToString(cfg.Workflow.MaxTotalIterations)
            \o ") exceeded"
    ELSE IF agentLimitReached(cfg, st)
    THEN "maximum iterations for agent " \o st.CurrentAgent \o " ("
            \o ToString(getMaxIterationsForAgent(cfg, st.CurrentAgent)) \o ") exceeded"
    ELSE ""

\* the workflow timeout check at the top of the loop
timeoutExceeded(cfg, minutes) == minutes > cfg.Workflow.TimeoutMinutes

\* executeCurrentAgent: what the invocation of the current agent can return;
\* llmErr is the error of the Generate call inside it, "" when it succeeded.
\* The failure of Generate is tried in the steps of the manager and of the
\* engineer.
AgentReturns(registered, st) ==
    IF st.CurrentAgent \notin registered
    THEN {[res |-> NoResult, err |-> "agent " \o st.CurrentAgent \o " not registered",
           llmErr |-> ""]}
    ELSE {[res |-> r, err |-> "", llmErr |-> ""] : r \in StepOutcomes(st.CurrentAgent)}
         \cup {[res |-> GenerateFailed(e), err |-> "", llmErr |-> e] :
                  e \in IF st.CurrentAgent \in {AgentRoleEM, AgentRoleEngineer}
                        THEN LLMErrors ELSE {}}
         \cup {[res |-> NoResult, err |-> e, llmErr |-> ""] :
                  e \in StepErrors(st.CurrentAgent)}

\* the record of one invocation of executeCurrentAgent
AgentStep(role, r) == [role |-> role, res |-> r.res, err |-> r.err, llmErr |-> r.llmErr]

\* line 187: the iteration counts after a routed step of the role
\* variant: the step counts for the role the run is routed to
countIterationOfNext(counts, role) ==
    [r \in DOMAIN counts |-> IF r # role /\ counts[r] = 0 THEN 1 ELSE counts[r]]
countIteration(counts, role) == [counts EXCEPT ![role] = @ + 1]

\* lines 190-192: the task description after a routed step
\* variant: the next steps replace the task description even when empty
nextStepsAlways(st, res) == res.NextSteps
nextTaskDescription(st, res) ==
    IF res.NextSteps # "" THEN res.NextSteps ELSE st.TaskDescription

\* buildAgentPrompt without project instruction files
buildAgentPrompt(st) == st.TaskDescription

\* variant: the command entry is consulted before the connection entry
analyzeAndRecoverCommandFirst(err, st) ==
    LET errorMsg == ToLower(err) IN
    IF Contains(errorMsg, "command") \/ Contains(errorMsg, "restricted")
    THEN [CanRecover |-> TRUE, NextAgent |-> AgentRoleEM,
          Reason |-> "Command restrictions, need alternative approach"]
    ELSE IF Contains(errorMsg, "connection") \/ Contains(errorMsg, "timeout")
    THEN [CanRecover |-> TRUE, NextAgent |-> st.CurrentAgent,
          Reason |-> "Connection error, retrying"]
    ELSE IF Contains(errorMsg, "not registered")
    THEN [CanRecover |-> TRUE, NextAgent |-> AgentRoleEM,
          Reason |-> "Agent unavailable, replanning"]
    ELSE IF Contains(errorMsg, "file") \/ Contains(errorMsg, "directory")
    THEN [CanRecover |-> TRUE, NextAgent |-> AgentRoleEM,
          Reason |-> "File system issue, need planning support"]
    ELSE IF Contains(errorMsg, "deadline") \/ Contains(errorMsg, "context")
    THEN [CanRecover |-> TRUE, NextAgent |-> AgentRoleEM,
          Reason |-> "Timeout occurred, simplifying approach"]
    ELSE [CanRecover |-> FALSE, NextAgent |-> "", Reason |-> "Unrecoverable error"]
analyzeAndRecoverFromError(err, st) ==
    LET errorMsg == ToLower(err) IN
    IF Contains(errorMsg, "connection") \/ Contains(errorMsg, "timeout")
    THEN [CanRecover |-> TRUE, NextAgent |-> st.CurrentAgent,
          Reason |-> "Connection error, retrying"]
    ELSE IF Contains(errorMsg, "not registered")
    THEN [CanRecover |-> TRUE, NextAgent |-> AgentRoleEM,
          Reason |-> "Agent unavailable, replanning"]
    ELSE IF Contains(errorMsg, "command") \/ Contains(errorMsg, "restricted")
    THEN [CanRecover |-> TRUE, NextAgent |-> AgentRoleEM,
          Reason |-> "Command restrictions, need alternative approach"]
    ELSE IF Contains(errorMsg, "file") \/ Contains(errorMsg, "directory")
    THEN [CanRecover |-> TRUE, NextAgent |-> AgentRoleEM,
          Reason |-> "File system issue, need planning support"]
    ELSE IF Contains(errorMsg, "deadline") \/ Contains(errorMsg, "context")
    THEN [CanRecover |-> TRUE, NextAgent |-> AgentRoleEM,
          Reason |-> "Timeout occurred, simplifying approach"]
    ELSE [CanRecover |-> FALSE, NextAgent |-> "", Reason |-> "Unrecoverable error"]

categorizeFailure(err) ==
    LET errorMsg == ToLower(err) IN
    IF Contains(errorMsg, "timeout") \/ Contains(errorMsg, "deadline") THEN "timeout"
    ELSE IF Contains(errorMsg, "connection") THEN "connection_failed"
    ELSE IF Contains(errorMsg, "not registered") THEN "agent_unavailable"
    ELSE IF Contains(errorMsg, "command") \/ Contains(errorMsg, "restricted")
    THEN "command_restriction"
    ELSE IF Contains(errorMsg, "file") \/ Contains(errorMsg, "directory")
    THEN "filesystem_error"
    ELSE IF Contains(errorMsg, "config") THEN "configuration_error"
    ELSE IF Contains(errorMsg, "git") THEN "git_error"
    ELSE "unknown_error"

\* a transition record; the wall-clock Timestamp is left out
\* variant: the record names the role the run moves to as its origin
AgentTransitionReversed(from, to, reason) ==
    [FromAgent |-> to, ToAgent |-> from, Reason |-> reason]
AgentTransition(from, to, reason) == [FromAgent |-> from, ToAgent |-> to, Reason |-> reason]

updateResultWithAgent(res, role, ar) ==
    [res EXCEPT
        !.AgentSummaries = [k \in DOMAIN @ \cup {role} |->
                              IF k = role
                              THEN [Role |-> role, TaskCompleted |-> ar.Message,
                                    FilesChanged |-> ar.FilesModified, Iterations |-> 1,
                                    Success |-> ar.Success]
                              ELSE @[k]],
        !.FilesModified = @ \o ar.FilesModified,
        !.BuildOutput = IF ar.BuildOutput # ""
                        THEN @ \o "\n=== " \o role \o " Output ===\n" \o ar.BuildOutput
                        ELSE @,
        !.CompletedPhases = Append(@, role),
        !.TestsAdded = IF role = AgentRoleQA THEN @ \o ar.FilesModified ELSE @,
        !.QualityChecks = IF role = AgentRoleTechLead THEN @ \o ar.CommandsExecuted ELSE @]

\* variant: a successful result of any role completes the workflow
anySuccessCompletes(st, ar) == ar.Success
isWorkflowComplete(st, ar) == st.CurrentAgent = AgentRoleTechLead /\ ar.Success

(***************************************************************************)
(* Workflow health.                                                        *)
(***************************************************************************)
\* lines 466-480: a transition repeats the transition two places before it
\* variant: only a transition between two different roles counts as repeated
detectLoopBetweenRoles(transitions) ==
    IF Len(transitions) < 3 THEN FALSE
    ELSE \E i \in 1..(Len(transitions) - 2) :
            /\ transitions[i].FromAgent = transitions[i + 2].FromAgent
            /\ transitions[i].ToAgent = transitions[i + 2].ToAgent
            /\ transitions[i].FromAgent # transitions[i].ToAgent
detectLoop(transitions) ==
    IF Len(transitions) < 3 THEN FALSE
    ELSE \E i \in 1..(Len(transitions) - 2) :
            /\ transitions[i].FromAgent = transitions[i + 2].FromAgent
            /\ transitions[i].ToAgent = transitions[i + 2].ToAgent

\* the guard of the loop check in validateWorkflowHealth
\* variant: a history of three transitions is checked for a loop as well
loopCheckFromThree(history) == Len(history) >= 3
loopCheckApplies(history) == Len(history) > 3

\* the number of the last five transitions that lead to the manager
emCount(history) ==
    Cardinality({i \in 1..Len(history) :
                    i >= Len(history) - 4 /\ history[i].ToAgent = AgentRoleEM})

\* variant: only five transitions to the manager count as too many
allFiveEM(history) == emCount(history) > 4
tooManyEM(history) == emCount(history) > 3

\* validateWorkflowHealth: the error text, "" for nil
validateWorkflowHealth(st) ==
    LET history == st.WorkflowHistory IN
    IF loopCheckApplies(history)
         /\ detectLoop(SubSeq(history, Len(history) - 2, Len(history)))
    THEN "detected workflow loop, aborting"
    ELSE IF tooManyEM(history)
    THEN "excessive EM interventions, workflow may be stuck"
    ELSE ""

(***************************************************************************)
(* The server: one ToolSet and one orchestrator for all sessions; every    *)
(* start_workflow message runs handleWorkflowRequest in a goroutine of its *)
(* own.                                                                    *)
(***************************************************************************)
Sessions == {"session_1", "session_2"}
WorkingDirs == {"/app/projects/a", "/app/projects/b"}
ToolKinds == {"filesystem", "git", "commands"}

\* tools.NewToolSet: the directory each tool of the set is bound to
NewToolSet(workingDir) ==
    [workingDir |-> workingDir, filesystem |-> workingDir, git |-> workingDir,
     commands |-> workingDir]

NoOperation == [none |-> TRUE]
IdleRun == [pc |-> "idle", dir |-> "", operations |-> 0, lastOp |-> NoOperation]

(***************************************************************************)
(* SeniorEngineer.ImplementFeature (engineer.go): the attempt loop of one  *)
(* call.  executeImplementation always returns a nil error, so an attempt  *)
(* ends with a Generate error, a successful result or a failed result.     *)
(***************************************************************************)
maxAttempts == 8
maxSameErrorAttempts == 3

\* SeniorEngineer.categorizeError: the first category whose words occur in
\* the lower-cased error text
categorizeError(errorMsg) ==
    CHOOSE category \in
      { IF ContainsAny(errorLower, <<"approach", "architecture">>)
          THEN "approach_issue"
        ELSE IF ContainsAny(errorLower, <<"pattern", "convention">>)
          THEN "pattern_mismatch"
        ELSE IF ContainsAny(errorLower, <<"project structure", "organization">>)
          THEN "structure_issue"
        ELSE IF ContainsAny(errorLower, <<"missing dependency", "setup">>)
          THEN "setup_issue"
        ELSE IF Contains(errorLower, "imported and not used")
          THEN "unused_import"
        ELSE IF ContainsAny(errorLower, <<"undefined:", "not declared">>)
          THEN "undefined_symbol"
        ELSE IF ContainsAny(errorLower, <<"syntax error", "expected">>)
          THEN "syntax_error"
        ELSE IF Contains(errorLower, "type")
                  /\ ContainsAny(errorLower, <<"mismatch", "cannot">>)
          THEN "type_error"
        ELSE IF ContainsAny(errorLower, <<"build failed", "compilation">>)
          THEN "build_failure"
        ELSE IF Contains(errorLower, "package") /\ Contains(errorLower, "not found")
          THEN "missing_package"
        ELSE IF ContainsAny(errorLower, <<"no such file", "file not found">>)
          THEN "file_not_found"
        ELSE IF ContainsAny(errorLower, <<"permission", "access denied">>)
          THEN "permission_error"
        ELSE IF Contains(errorLower, "command") /\ Contains(errorLower, "not found")
          THEN "command_error"
        ELSE IF ContainsAny(errorLower, <<"connection", "network">>)
          THEN "network_error"
        ELSE IF ContainsAny(errorLower, <<"timeout", "deadline">>)
          THEN "timeout_error"
        ELSE IF Contains(errorLower, "test") /\ Contains(errorLower, "failed")
          THEN "test_failure"
        ELSE "unknown_error" : errorLower \in {ToLower(errorMsg)} } : TRUE

\* the loop condition of line 67
\* variant: the loop admits one attempt more
attemptsRemainInclusive(attempts) == attempts <= maxAttempts
attemptsRemain(attempts) == attempts < maxAttempts

\* lines 112-120: the same-error counter after a failed attempt
\* variant: the counter is never reset
sameErrorAttemptsNoReset(newErrorCategory, currentErrorCategory, sameErrorAttempts) ==
    sameErrorAttempts + 1
nextSameErrorAttempts(newErrorCategory, currentErrorCategory, sameErrorAttempts) ==
    IF newErrorCategory # currentErrorCategory THEN 1 ELSE sameErrorAttempts + 1

\* the results executeImplementation returns to the loop
ImplementationErrors ==
    {"Build failed: exit status 1: undefined: foo",
     "Build failed: exit status 1: undefined: bar",
     "Build failed: exit status 1: syntax error: unexpected }",
     "Failed to write file a.go: permission denied"}
ImplementationSucceeded ==
    Response(TRUE, "Feature implemented successfully", <<"a.go">>, "",
             "Ready for review and testing", "")
ImplementationFailed(error) ==
    Response(FALSE, "", <<>>, "", "Ready for review and testing", error)

\* categorizeError on the error texts above
errorCategories == [error \in ImplementationErrors |-> categorizeError(error)]

\* the ghost record of one attempt
Attempt(kind, error) == [kind |-> kind, error |-> error]

\* the local variables of ImplementFeature before the loop (lines 59-65)
IdleEngineer ==
    [pc |-> "idle", attempts |-> 0, currentErrorCategory |-> "",
     sameErrorAttempts |-> 0, lastError |-> "", result |-> NoResult,
     history |-> <<>>]

(***************************************************************************)
(* SeniorEngineer.parseActions (engineer.go) and the Go text functions it  *)
(* uses.                                                                   *)
(***************************************************************************)
isSpace(c) == c \in {" ", "\t", "\n", "\r"}

\* strings.TrimSpace(s)
TrimSpace(s) ==
    CHOOSE trimmed \in
      { LET n == Len(str)
            first == CHOOSE i \in 1..(n + 1) :
                        /\ i = n + 1 \/ ~isSpace(CharAt(str, i))
                        /\ \A j \in 1..(i - 1) : isSpace(CharAt(str, j))
            last == CHOOSE i \in 0..n :
                        /\ i = 0 \/ ~isSpace(CharAt(str, i))
                        /\ \A j \in (i + 1)..n : isSpace(CharAt(str, j))
        IN  \* SubSeq is empty when the text is all white space
            SubSeq(str, first, last) : str \in {s} } : TRUE

\* strings.HasPrefix(s, prefix)
HasPrefix(s, prefix) ==
    /\ Len(s) >= Len(prefix)
    /\ SubSeq(s, 1, Len(prefix)) = prefix

\* strings.TrimPrefix(s, prefix)
TrimPrefix(s, prefix) ==
    IF HasPrefix(s, prefix) THEN SubSeq(s, Len(prefix) + 1, Len(s)) ELSE s

\* strings.Split(s, sep) for a separator of one character
Split(s, sep) ==
    CHOOSE parts \in
      { LET n == Len(str)
            at == {i \in 1..n : CharAt(str, i) = sep}
            cut(k) == IF k = 0 THEN 0
                      ELSE IF k > Cardinality(at) THEN n + 1
                      ELSE CHOOSE i \in at : Cardinality({j \in at : j < i}) = k - 1
        IN  [k \in 1..(Cardinality(at) + 1) |->
               SubSeq(str, cut(k - 1) + 1, cut(k) - 1)] : str \in {s} } : TRUE

\* Action{Type: actionType}
NewAction(actionType) ==
    [Type |-> actionType, Path |-> "", Content |-> "", Command |-> "",
     Pattern |-> "", SearchPath |-> ""]

\* the code-fence marker of line 435, three grave accents; a string of the
\* model cannot hold a grave accent, so an apostrophe stands for it
codeFence == "'''"

\* the nil *Action
NoAction == [none |-> TRUE]

\* lines 402-406: the parser before the first line
\* variant: the parser starts with an action in progress
parseStartOpen ==
    [actions |-> <<>>, currentAction |-> NewAction(""), inContent |-> FALSE,
     contentBuilder |-> ""]
parseStart ==
    [actions |-> <<>>, currentAction |-> NoAction, inContent |-> FALSE,
     contentBuilder |-> ""]

\* lines 413-418 and 444-449: the action in progress is saved
\* variant: only an action with content is saved
flushActionWithContent(parser) ==
    IF parser.currentAction # NoAction /\ parser.inContent
    THEN Append(parser.actions,
                [parser.currentAction EXCEPT
                   !.Content = TrimSpace(parser.contentBuilder)])
    ELSE parser.actions
flushAction(parser) ==
    IF parser.currentAction # NoAction
    THEN Append(parser.actions,
                IF parser.inContent
                THEN [parser.currentAction EXCEPT
                        !.Content = TrimSpace(parser.contentBuilder)]
                ELSE parser.currentAction)
    ELSE parser.actions

\* lines 410-441: one iteration of the loop, on the trimmed line
parseLine(parser, line) ==
    IF HasPrefix(line, "ACTION:")
    THEN [actions |-> flushAction(parser),
          currentAction |-> NewAction(TrimSpace(TrimPrefix(line, "ACTION:"))),
          inContent |-> FALSE,
          contentBuilder |-> ""]
    ELSE IF parser.currentAction # NoAction
    THEN IF HasPrefix(line, "PATH:")
         THEN [parser EXCEPT
                 !.currentAction.Path = TrimSpace(TrimPrefix(line, "PATH:"))]
         ELSE IF HasPrefix(line, "COMMAND:")
         THEN [parser EXCEPT
                 !.currentAction.Command = TrimSpace(TrimPrefix(line, "COMMAND:"))]
         ELSE IF HasPrefix(line, "PATTERN:")
         THEN [parser EXCEPT
                 !.currentAction.Pattern = TrimSpace(TrimPrefix(line, "PATTERN:"))]
         ELSE IF HasPrefix(line, "SEARCH_PATH:")
         THEN [parser EXCEPT
                 !.currentAction.SearchPath =
                     TrimSpace(TrimPrefix(line, "SEARCH_PATH:"))]
         ELSE IF HasPrefix(line, "CONTENT:")
         THEN [parser EXCEPT !.inContent = TRUE, !.contentBuilder = ""]
         ELSE IF parser.inContent /\ ~HasPrefix(line, codeFence)
         THEN [parser EXCEPT
                 !.contentBuilder = IF Len(@) > 0 THEN @ \o "\n" \o line ELSE line]
         ELSE parser
    ELSE parser

\* SeniorEngineer.parseActions
parseActions(response) ==
    CHOOSE actions \in
      { LET parse[i \in 0..Len(lines)] ==
                IF i = 0 THEN parseStart
                ELSE CHOOSE next \in
                       {parseLine(parser, line) :
                          parser \in {parse[i - 1]},
                          line \in {TrimSpace(lines[i])}} : TRUE
        IN  CHOOSE flushed \in
              {flushAction(parser) : parser \in {parse[Len(lines)]}} : TRUE
        : lines \in {Split(response, "\n")} } : TRUE

\* strings.Join(elems, sep)
Join(elems, sep) ==
    LET join[i \in 0..Len(elems)] ==
            IF i = 0 THEN ""
            ELSE IF i = 1 THEN elems[1]
            ELSE join[i - 1] \o sep \o elems[i]
    IN  join[Len(elems)]

\* most lines of a response in the direct calls of parseActions
MaxLines == 4

\* the lines the responses are made of
ResponseLines ==
    {"ACTION: WRITE_FILE", " ACTION:GIVE_UP ", "PATH: a.go", "COMMAND: go build .",
     "CONTENT:", "hello", "  world", "'''go", "'''", ""}

\* all responses of at most MaxLines lines, and the response of the format
\* section of the prompt with and without a final newline
ResponseTexts ==
    UNION {[1..n -> ResponseLines] : n \in 1..MaxLines}
      \cup {<<"ACTION: WRITE_FILE", "PATH: a.go", "CONTENT:", "hello", "world">>,
            <<"ACTION: WRITE_FILE", "PATH: a.go", "CONTENT:", "hello", "world", "">>}

(***************************************************************************)
(* tools.CommandValidator (commands.go).                                   *)
(***************************************************************************)
\* NewCommandValidator
NewCommandValidator(allowed, blockedPatterns, workingDir) ==
    [allowed |-> allowed, blockedPatterns |-> blockedPatterns,
     workingDir |-> workingDir]

\* CommandValidator.IsAllowed
\* variant: an allowed prefix is accepted before the blocked patterns are
\* looked at
IsAllowedPrefixFirst(cv, command) ==
    \E trimmed \in {TrimSpace(command)} :
        \E k \in 1..Len(cv.allowed) : HasPrefix(trimmed, cv.allowed[k])
IsAllowed(cv, command) ==
    \E trimmed \in {TrimSpace(command)} :
        /\ ~\E k \in 1..Len(cv.blockedPatterns) :
                Contains(trimmed, cv.blockedPatterns[k])
        /\ \E k \in 1..Len(cv.allowed) : HasPrefix(trimmed, cv.allowed[k])

\* CommandValidator.ValidateCommand: the error text, "" for nil
ValidateCommand(cv, command) ==
    IF ~IsAllowed(cv, command) THEN "command not allowed: " \o command ELSE ""

\* no process was started
NoProcess == [none |-> TRUE]

\* what the process started by exec.Command returns: its combined output and
\* its error, "" for nil
ProcessResults ==
    {[output |-> "ok", err |-> ""], [output |-> "FAIL", err |-> "exit status 1"]}

\* CommandValidator.ExecuteCommand: output, error and the process started
ExecuteCommand(cv, command, process) ==
    IF ValidateCommand(cv, command) # ""
    THEN [output |-> "", err |-> ValidateCommand(cv, command), started |-> NoProcess]
    ELSE [output |-> process.output, err |-> process.err,
          started |-> [name |-> "sh", args |-> <<"-c", command>>,
                       dir |-> cv.workingDir]]

\* the allowed commands and the blocked patterns of the configuration file
\* of the README, those of a configuration that allows nothing, and the
\* commands tried
CommandValidators ==
    {NewCommandValidator(<<"go build", "go test", "git status", "git diff">>,
                         <<"sudo", "rm -rf", "chmod +x", "systemctl">>, "/app/projects"),
     NewCommandValidator(<<"go build", "make">>, <<>>, "/app/projects"),
     NewCommandValidator(<<>>, <<"sudo">>, "/app/projects")}
CommandHeads == {"go build", "go test ./...", "git status", "make", "ls", "sudo make",
                 "rm -rf /", "go"}
CommandTails == {"", " .", " && rm -rf /tmp", "; sudo reboot", " "}
Commands ==
    {lead \o head \o tail : lead \in {"", "  "}, head \in CommandHeads,
                               tail \in CommandTails}

(***************************************************************************)
(* ExecuteWorkflow: the state after the initialisation of lines 72-107.    *)
(***************************************************************************)
NoCall == [none |-> TRUE]
NoReturn == [none |-> TRUE]

\* lines 73-79: the state a run starts in
\* variant: the run starts with the engineer
InitialStateAtEngineer(description) ==
    [CurrentAgent |-> AgentRoleEngineer,
     IterationCounts |-> [r \in AgentRoles |-> 0],
     TaskDescription |-> description,
     WorkflowHistory |-> <<>>]
InitialState(description) ==
    [CurrentAgent |-> AgentRoleEM,
     IterationCounts |-> [r \in AgentRoles |-> 0],
     TaskDescription |-> description,
     WorkflowHistory |-> <<>>]

InitialResult ==
    [Success |-> TRUE, CompletedPhases |-> <<>>, FilesModified |-> <<>>,
     TestsAdded |-> <<>>, QualityChecks |-> <<>>, BuildOutput |-> "",
     AgentSummaries |-> <<>>, WorkflowHistory |-> <<>>,
     NextSteps |-> "Workflow completed successfully", Error |-> "", FailureReason |-> ""]

Init ==
    /\ \E d \in Deployments : config = d.config /\ agents = d.agents
    /\ state = InitialState("add a /health endpoint")
    /\ result = InitialResult
    /\ agentResult = NoResult
    /\ agentErr = ""
    /\ invocations = 0
    /\ elapsed = 0
    /\ pc = "loop"
    /\ documented = 0
    /\ documentErr = ""
    /\ steps = <<>>
    /\ toolSet = NewToolSet("/app/projects")
    /\ runs = [s \in Sessions |-> IdleRun]
    /\ engineer = IdleEngineer
    /\ call = NoCall
    /\ ret = NoReturn

\* result after a failure branch of the loop
\* variant: the failure branch sets the reason and leaves the message out
failedWithoutMessage(res, message, reason) ==
    [res EXCEPT !.Success = FALSE, !.FailureReason = reason]
failed(res, message, reason) ==
    [res EXCEPT !.Success = FALSE, !.Error = message, !.FailureReason = reason]

(***************************************************************************)
(* One iteration of the for loop of ExecuteWorkflow, a definition for each *)
(* path through the loop body.                                             *)
(***************************************************************************)
\* lines 111-117: the timeout check fails the run
Timeout ==
    /\ pc = "loop"
    /\ timeoutExceeded(config, elapsed)
    /\ result' = failed(result, "Workflow timeout exceeded", "timeout")
    /\ pc' = "finalize"
    /\ UNCHANGED <<config, agents, state, agentResult, agentErr, invocations, elapsed,
                   documented, documentErr, steps, toolSet, runs, engineer, call, ret>>

\* lines 119-125: the iteration limits fail the run
IterationLimit ==
    /\ pc = "loop"
    /\ ~timeoutExceeded(config, elapsed)
    /\ checkIterationLimits(config, state) # ""
    /\ result' = failed(result, checkIterationLimits(config, state),
                        "iteration_limit_exceeded")
    /\ pc' = "finalize"
    /\ UNCHANGED <<config, agents, state, agentResult, agentErr, invocations, elapsed,
                   documented, documentErr, steps, toolSet, runs, engineer, call, ret>>

\* the checks at the top of the loop let the current agent run
agentRuns ==
    /\ pc = "loop"
    /\ ~timeoutExceeded(config, elapsed)
    /\ checkIterationLimits(config, state) = ""

\* the number of error recoveries recorded in the history
recoveryCount(history) ==
    Cardinality({i \in 1..Len(history) :
                    SubSeq(history[i].Reason, 1, 16) = "Error recovery: "})

\* lines 128-142: the invocation fails with a recoverable error
\* variant: a recovery counts as an iteration of the failed role
RecoverCounted(r, dt) ==
    /\ agentRuns
    /\ r.err # ""
    /\ analyzeAndRecoverFromError(r.err, state).CanRecover
    /\ recoveryCount(state.WorkflowHistory) < MaxRecoveries
    /\ LET recoveryAction == analyzeAndRecoverFromError(r.err, state) IN
       state' = [state EXCEPT
                   !.WorkflowHistory =
                       Append(@, AgentTransition(state.CurrentAgent,
                                                 recoveryAction.NextAgent,
                                                 "Error recovery: "
                                                    \o recoveryAction.Reason)),
                   !.IterationCounts = countIteration(@, state.CurrentAgent),
                   !.CurrentAgent = recoveryAction.NextAgent]
    /\ agentResult' = r.res
    /\ agentErr' = r.err
    /\ invocations' = invocations + 1
    /\ elapsed' = elapsed + dt
    /\ steps' = Append(steps, AgentStep(state.CurrentAgent, r))
    /\ UNCHANGED <<config, agents, result, pc, documented, documentErr, toolSet, runs, engineer, call, ret>>
Recover(r, dt) ==
    /\ agentRuns
    /\ r.err # ""
    /\ analyzeAndRecoverFromError(r.err, state).CanRecover
    /\ recoveryCount(state.WorkflowHistory) < MaxRecoveries
    /\ LET recoveryAction == analyzeAndRecoverFromError(r.err, state) IN
       state' = [state EXCEPT
                   !.WorkflowHistory =
                       Append(@, AgentTransition(state.CurrentAgent,
                                                 recoveryAction.NextAgent,
                                                 "Error recovery: "
                                                    \o recoveryAction.Reason)),
                   !.CurrentAgent = recoveryAction.NextAgent]
    /\ agentResult' = r.res
    /\ agentErr' = r.err
    /\ invocations' = invocations + 1
    /\ elapsed' = elapsed + dt
    /\ steps' = Append(steps, AgentStep(state.CurrentAgent, r))
    /\ UNCHANGED <<config, agents, result, pc, documented, documentErr, toolSet, runs, engineer, call, ret>>

\* lines 144-148: the invocation fails with an unrecoverable error
\* variant: the run fails on every invocation error, the recovery table unasked
AgentFailedUnrecovered(r, dt) ==
    /\ agentRuns
    /\ r.err # ""
    /\ result' = failed(result, "Agent execution failed: " \o r.err,
                        categorizeFailure(r.err))
    /\ pc' = "finalize"
    /\ agentResult' = r.res
    /\ agentErr' = r.err
    /\ invocations' = invocations + 1
    /\ elapsed' = elapsed + dt
    /\ steps' = Append(steps, AgentStep(state.CurrentAgent, r))
    /\ UNCHANGED <<config, agents, state, documented, documentErr, toolSet, runs, engineer, call, ret>>
AgentFailed(r, dt) ==
    /\ agentRuns
    /\ r.err # ""
    /\ ~analyzeAndRecoverFromError(r.err, state).CanRecover
    /\ result' = failed(result, "Agent execution failed: " \o r.err,
                        categorizeFailure(r.err))
    /\ pc' = "finalize"
    /\ agentResult' = r.res
    /\ agentErr' = r.err
    /\ invocations' = invocations + 1
    /\ elapsed' = elapsed + dt
    /\ steps' = Append(steps, AgentStep(state.CurrentAgent, r))
    /\ UNCHANGED <<config, agents, state, documented, documentErr, toolSet, runs, engineer, call, ret>>

\* lines 151-160: the agent returned a result, the health check fails
HealthFailed(r, dt) ==
    /\ agentRuns
    /\ r.err = ""
    /\ validateWorkflowHealth(state) # ""
    /\ result' = failed(updateResultWithAgent(result, state.CurrentAgent, r.res),
                        "Workflow health check failed: " \o validateWorkflowHealth(state),
                        "workflow_health_failed")
    /\ pc' = "finalize"
    /\ agentResult' = r.res
    /\ agentErr' = r.err
    /\ invocations' = invocations + 1
    /\ elapsed' = elapsed + dt
    /\ steps' = Append(steps, AgentStep(state.CurrentAgent, r))
    /\ UNCHANGED <<config, agents, state, documented, documentErr, toolSet, runs, engineer, call, ret>>

\* lines 162-166: the workflow is complete
\* variant: the completion check does not wait for the health check
CompleteBeforeHealth(r, dt) ==
    /\ agentRuns
    /\ r.err = ""
    /\ isWorkflowComplete(state, r.res)
    /\ result' = [updateResultWithAgent(result, state.CurrentAgent, r.res) EXCEPT
                     !.CompletedPhases = Append(@, "workflow_complete")]
    /\ pc' = "finalize"
    /\ agentResult' = r.res
    /\ agentErr' = r.err
    /\ invocations' = invocations + 1
    /\ elapsed' = elapsed + dt
    /\ steps' = Append(steps, AgentStep(state.CurrentAgent, r))
    /\ UNCHANGED <<config, agents, state, documented, documentErr, toolSet, runs, engineer, call, ret>>
Complete(r, dt) ==
    /\ agentRuns
    /\ r.err = ""
    /\ validateWorkflowHealth(state) = ""
    /\ isWorkflowComplete(state, r.res)
    /\ result' = [updateResultWithAgent(result, state.CurrentAgent, r.res) EXCEPT
                     !.CompletedPhases = Append(@, "workflow_complete")]
    /\ pc' = "finalize"
    /\ agentResult' = r.res
    /\ agentErr' = r.err
    /\ invocations' = invocations + 1
    /\ elapsed' = elapsed + dt
    /\ steps' = Append(steps, AgentStep(state.CurrentAgent, r))
    /\ UNCHANGED <<config, agents, state, documented, documentErr, toolSet, runs, engineer, call, ret>>

\* lines 168-175: no routing rule matches
\* variant: the loop goes on after the routing failure
RoutingFailedContinues(r, dt) ==
    /\ agentRuns
    /\ r.err = ""
    /\ validateWorkflowHealth(state) = ""
    /\ ~isWorkflowComplete(state, r.res)
    /\ routeToNextAgent(state, r.res).err
    /\ result' = failed(updateResultWithAgent(result, state.CurrentAgent, r.res),
                        "Routing failed: no routing rule matched for agent "
                           \o state.CurrentAgent \o " with result: success="
                           \o (IF r.res.Success THEN "true" ELSE "false"),
                        "routing_failed")
    /\ agentResult' = r.res
    /\ agentErr' = r.err
    /\ invocations' = invocations + 1
    /\ elapsed' = elapsed + dt
    /\ steps' = Append(steps, AgentStep(state.CurrentAgent, r))
    /\ UNCHANGED <<config, agents, state, pc, documented, documentErr, toolSet, runs, engineer, call, ret>>
RoutingFailed(r, dt) ==
    /\ agentRuns
    /\ r.err = ""
    /\ validateWorkflowHealth(state) = ""
    /\ ~isWorkflowComplete(state, r.res)
    /\ routeToNextAgent(state, r.res).err
    /\ result' = failed(updateResultWithAgent(result, state.CurrentAgent, r.res),
                        "Routing failed: no routing rule matched for agent "
                           \o state.CurrentAgent \o " with result: success="
                           \o (IF r.res.Success THEN "true" ELSE "false"),
                        "routing_failed")
    /\ pc' = "finalize"
    /\ agentResult' = r.res
    /\ agentErr' = r.err
    /\ invocations' = invocations + 1
    /\ elapsed' = elapsed + dt
    /\ steps' = Append(steps, AgentStep(state.CurrentAgent, r))
    /\ UNCHANGED <<config, agents, state, documented, documentErr, toolSet, runs, engineer, call, ret>>

\* lines 168-192: the transition to the next agent
\* variant: the new transition is put in front of the history
RoutedNewestFirst(r, dt) ==
    /\ agentRuns
    /\ r.err = ""
    /\ validateWorkflowHealth(state) = ""
    /\ ~isWorkflowComplete(state, r.res)
    /\ ~routeToNextAgent(state, r.res).err
    /\ LET decision == routeToNextAgent(state, r.res) IN
       state' = [state EXCEPT
                   !.WorkflowHistory =
                       <<AgentTransition(state.CurrentAgent, decision.NextAgent,
                                         decision.Reason)>> \o @,
                   !.IterationCounts = countIteration(@, state.CurrentAgent),
                   !.CurrentAgent = decision.NextAgent,
                   !.TaskDescription = nextTaskDescription(state, r.res)]
    /\ result' = updateResultWithAgent(result, state.CurrentAgent, r.res)
    /\ agentResult' = r.res
    /\ agentErr' = r.err
    /\ invocations' = invocations + 1
    /\ elapsed' = elapsed + dt
    /\ steps' = Append(steps, AgentStep(state.CurrentAgent, r))
    /\ UNCHANGED <<config, agents, pc, documented, documentErr, toolSet, runs, engineer, call, ret>>
Routed(r, dt) ==
    /\ agentRuns
    /\ r.err = ""
    /\ validateWorkflowHealth(state) = ""
    /\ ~isWorkflowComplete(state, r.res)
    /\ ~routeToNextAgent(state, r.res).err
    /\ LET decision == routeToNextAgent(state, r.res) IN
       state' = [state EXCEPT
                   !.WorkflowHistory =
                       Append(@, AgentTransition(state.CurrentAgent, decision.NextAgent,
                                                 decision.Reason)),
                   !.IterationCounts = countIteration(@, state.CurrentAgent),
                   !.CurrentAgent = decision.NextAgent,
                   !.TaskDescription = nextTaskDescription(state, r.res)]
    /\ result' = updateResultWithAgent(result, state.CurrentAgent, r.res)
    /\ agentResult' = r.res
    /\ agentErr' = r.err
    /\ invocations' = invocations + 1
    /\ elapsed' = elapsed + dt
    /\ steps' = Append(steps, AgentStep(state.CurrentAgent, r))
    /\ UNCHANGED <<config, agents, pc, documented, documentErr, toolSet, runs, engineer, call, ret>>

\* enhanceResultWithDiagnostics; the duration and the per-role lines of the
\* diagnostics text, printed in map order, are left out
enhanceResultWithDiagnostics(res, st) ==
    [res EXCEPT
        !.NextSteps =
            IF Len(st.WorkflowHistory) > 0
            THEN LET lastTransition == st.WorkflowHistory[Len(st.WorkflowHistory)] IN
                 @ \o " Last transition: " \o lastTransition.FromAgent \o " -> "
                   \o lastTransition.ToAgent \o " (" \o lastTransition.Reason \o ")"
            ELSE @,
        !.BuildOutput = @ \o "\n\n=== Workflow Diagnostics ===\n" \o "Total transitions: "
                          \o ToString(Len(st.WorkflowHistory)) \o "\n",
        !.AgentSummaries = [k \in DOMAIN @ |->
                              IF st.IterationCounts[k] > 0
                              THEN [@[k] EXCEPT !.Iterations = st.IterationCounts[k]]
                              ELSE @[k]]]

\* the errors DocumentTask of the manager returns, "" for nil
DocumentTaskErrors == {"", "failed to generate documentation from LLM: connection refused"}

\* lines 195-209: the result is finalised; after a successful run the
\* registered manager documents the task, and an error of it is only logged
\* variant: the manager documents the task after every run
FinalizeDocumentsAlways(docErr) ==
    /\ pc = "finalize"
    /\ result' = enhanceResultWithDiagnostics(
                    [result EXCEPT !.WorkflowHistory = state.WorkflowHistory], state)
    /\ IF AgentRoleEM \in agents
       THEN documented' = documented + 1 /\ documentErr' = docErr
       ELSE UNCHANGED <<documented, documentErr>>
    /\ pc' = "done"
    /\ UNCHANGED <<config, agents, state, agentResult, agentErr, invocations, elapsed,
                   steps, toolSet, runs, engineer, call, ret>>
Finalize(docErr) ==
    /\ pc = "finalize"
    /\ result' = enhanceResultWithDiagnostics(
                    [result EXCEPT !.WorkflowHistory = state.WorkflowHistory], state)
    /\ IF result.Success /\ AgentRoleEM \in agents
       THEN documented' = documented + 1 /\ documentErr' = docErr
       ELSE UNCHANGED <<documented, documentErr>>
    /\ pc' = "done"
    /\ UNCHANGED <<config, agents, state, agentResult, agentErr, invocations, elapsed,
                   steps, toolSet, runs, engineer, call, ret>>

Next ==
    \/ Timeout
    \/ IterationLimit
    \/ \E r \in AgentReturns(agents, state), dt \in {0, MaxStepMinutes} : Recover(r, dt)
    \/ \E r \in AgentReturns(agents, state), dt \in {0, MaxStepMinutes} : AgentFailed(r, dt)
    \/ \E r \in AgentReturns(agents, state), dt \in {0, MaxStepMinutes} : HealthFailed(r, dt)
    \/ \E r \in AgentReturns(agents, state), dt \in {0, MaxStepMinutes} : Complete(r, dt)
    \/ \E r \in AgentReturns(agents, state), dt \in {0, MaxStepMinutes} : RoutingFailed(r, dt)
    \/ \E r \in AgentReturns(agents, state), dt \in {0, MaxStepMinutes} : Routed(r, dt)
    \/ \E docErr \in DocumentTaskErrors : Finalize(docErr)

Spec == Init /\ [][Next]_vars

(***************************************************************************)
(* Runs in which every registered agent returns a result with a nil error, *)
(* among them the results that take a run back to the TechLead: an         *)
(* engineer result without file changes and a TechLead result that names   *)
(* quality issues.                                                         *)
(***************************************************************************)
ReviewReturns(st) ==
    {[res |-> r, err |-> "", llmErr |-> ""] : r \in ReviewOutcomes(st.CurrentAgent)}

InitReview == Init /\ agents = AgentRoles

NextReview ==
    \/ Timeout
    \/ IterationLimit
    \/ \E r \in ReviewReturns(state), dt \in {0, MaxStepMinutes} : HealthFailed(r, dt)
    \/ \E r \in ReviewReturns(state), dt \in {0, MaxStepMinutes} : Complete(r, dt)
    \/ \E r \in ReviewReturns(state), dt \in {0, MaxStepMinutes} : Routed(r, dt)
    \/ \E docErr \in DocumentTaskErrors : Finalize(docErr)

SpecReview == InitReview /\ [][NextReview]_vars

(***************************************************************************)
(* Concurrent workflow requests on one server.  A run binds the shared     *)
(* ToolSet to the directory of its request, field by field and without a   *)
(* lock, and then works through the tools of the set.                      *)
(***************************************************************************)
InitSessions ==
    /\ config = getDefaultWorkflowConfig
    /\ agents = AgentRoles
    /\ state = InitialState("")
    /\ result = InitialResult
    /\ agentResult = NoResult
    /\ agentErr = ""
    /\ invocations = 0
    /\ elapsed = 0
    /\ pc = "serve"
    /\ documented = 0
    /\ documentErr = ""
    /\ steps = <<>>
    /\ toolSet = NewToolSet("/app/projects")
    /\ runs = [s \in Sessions |-> IdleRun]
    /\ engineer = IdleEngineer
    /\ call = NoCall
    /\ ret = NoReturn

\* handleWorkflowRequest up to the call of ExecuteWorkflow, which finds a
\* non-empty req.WorkingDirectory
handleWorkflowRequest(s, dir) ==
    /\ runs[s].pc = "idle"
    /\ runs' = [runs EXCEPT ![s].pc = "workingDir", ![s].dir = dir]
    /\ UNCHANGED toolSet

\* the field SetWorkingDirectory assigns after the given one
nextField(field) ==
    IF field = "workingDir" THEN "filesystem"
    ELSE IF field = "filesystem" THEN "git"
    ELSE IF field = "git" THEN "commands"
    ELSE "running"

\* one assignment of ToolSet.SetWorkingDirectory
SetWorkingDirectory(s) ==
    /\ runs[s].pc \in {"workingDir", "filesystem", "git", "commands"}
    /\ toolSet' = [toolSet EXCEPT ![runs[s].pc] = runs[s].dir]
    /\ runs' = [runs EXCEPT ![s].pc = nextField(runs[s].pc)]

\* a file, git or command operation of the run through the shared ToolSet
ToolOperation(s, kind) ==
    /\ runs[s].pc = "running"
    /\ runs[s].operations < MaxOperations
    /\ runs' = [runs EXCEPT ![s].operations = @ + 1,
                            ![s].lastOp = [kind |-> kind, dir |-> toolSet[kind]]]
    /\ UNCHANGED toolSet

\* ImplementFeature of the next agent of the run sets the working directory
\* of the request again
AgentSetsWorkingDirectory(s) ==
    /\ runs[s].pc = "running"
    /\ runs' = [runs EXCEPT ![s].pc = "workingDir"]
    /\ UNCHANGED toolSet

\* ExecuteWorkflow returns
WorkflowReturns(s) ==
    /\ runs[s].pc = "running"
    /\ runs' = [runs EXCEPT ![s].pc = "done"]
    /\ UNCHANGED toolSet

varsWorkflow == <<config, agents, state, result, agentResult, agentErr, invocations, elapsed,
                  pc, documented, documentErr, steps, call, ret>>

NextSessions ==
    \/ \E s \in Sessions, dir \in WorkingDirs :
          handleWorkflowRequest(s, dir) /\ UNCHANGED <<varsWorkflow, engineer>>
    \/ \E s \in Sessions : SetWorkingDirectory(s) /\ UNCHANGED <<varsWorkflow, engineer>>
    \/ \E s \in Sessions, kind \in ToolKinds :
          ToolOperation(s, kind) /\ UNCHANGED <<varsWorkflow, engineer>>
    \/ \E s \in Sessions : AgentSetsWorkingDirectory(s) /\ UNCHANGED <<varsWorkflow, engineer>>
    \/ \E s \in Sessions : WorkflowReturns(s) /\ UNCHANGED <<varsWorkflow, engineer>>

SpecSessions == InitSessions /\ [][NextSessions]_vars

(***************************************************************************)
(* The routing engine and the classifier called directly on a role and a   *)
(* result.                                                                 *)
(***************************************************************************)
InitRoute ==
    /\ config = getDefaultWorkflowConfig
    /\ agents = AgentRoles
    /\ state = InitialState("")
    /\ result = InitialResult
    /\ agentResult = NoResult
    /\ agentErr = ""
    /\ invocations = 0
    /\ elapsed = 0
    /\ pc = "call"
    /\ documented = 0
    /\ documentErr = ""
    /\ steps = <<>>
    /\ toolSet = NewToolSet("/app/projects")
    /\ runs = [s \in Sessions |-> IdleRun]
    /\ engineer = IdleEngineer
    /\ call \in [currentAgent : AgentRoles, result : Outcomes]
    /\ ret = NoReturn

RouteCall ==
    /\ pc = "call"
    /\ ret' = [decision |-> RouteAgent(call.currentAgent, call.result),
               errorCtx |-> analyzeErrorContext(call.result)]
    /\ pc' = "returned"
    /\ UNCHANGED <<config, agents, state, result, agentResult, agentErr, invocations, elapsed,
                   documented, documentErr, steps, toolSet, runs, engineer, call>>

NextRoute == RouteCall

SpecRoute == InitRoute /\ [][NextRoute]_vars

(***************************************************************************)
(* One call of SeniorEngineer.ImplementFeature.                            *)
(***************************************************************************)
InitEngineer ==
    /\ config = getDefaultWorkflowConfig
    /\ agents = AgentRoles
    /\ state = InitialState("")
    /\ result = InitialResult
    /\ agentResult = NoResult
    /\ agentErr = ""
    /\ invocations = 0
    /\ elapsed = 0
    /\ pc = "engineer"
    /\ documented = 0
    /\ documentErr = ""
    /\ steps = <<>>
    /\ toolSet = NewToolSet("/app/projects")
    /\ runs = [s \in Sessions |-> IdleRun]
    /\ engineer = [IdleEngineer EXCEPT !.pc = "loop"]
    /\ call = NoCall
    /\ ret = NoReturn

\* lines 68-72: the per-agent context is done at the top of an iteration
EngineerTimedOut ==
    /\ engineer.pc = "loop"
    /\ attemptsRemain(engineer.attempts)
    /\ engineer' = [engineer EXCEPT
                      !.pc = "returned",
                      !.result = Response(FALSE, "", <<>>, "", "", "Agent timed out")]
    /\ UNCHANGED <<varsWorkflow, toolSet, runs>>

\* lines 74-92: the attempt is counted and Generate returns an error
EngineerGenerateError(llmErr) ==
    /\ engineer.pc = "loop"
    /\ attemptsRemain(engineer.attempts)
    /\ engineer' = [engineer EXCEPT
                      !.pc = "returned",
                      !.attempts = @ + 1,
                      !.result = GenerateFailed(llmErr),
                      !.history = Append(@, Attempt("generate_error", llmErr))]
    /\ UNCHANGED <<varsWorkflow, toolSet, runs>>

\* lines 74-106: the attempt is counted and its result is successful
EngineerAttemptSucceeded ==
    /\ engineer.pc = "loop"
    /\ attemptsRemain(engineer.attempts)
    /\ engineer' = [engineer EXCEPT
                      !.pc = "returned",
                      !.attempts = @ + 1,
                      !.result = ImplementationSucceeded,
                      !.history = Append(@, Attempt("succeeded", ""))]
    /\ UNCHANGED <<varsWorkflow, toolSet, runs>>

\* lines 74-133: the attempt is counted and its result is a failure
EngineerAttemptFailed(error) ==
    /\ engineer.pc = "loop"
    /\ attemptsRemain(engineer.attempts)
    /\ \E newErrorCategory \in {categorizeError(error)} :
       \E same \in {nextSameErrorAttempts(newErrorCategory,
                                          engineer.currentErrorCategory,
                                          engineer.sameErrorAttempts)} :
          engineer' =
            IF same >= maxSameErrorAttempts
            THEN [engineer EXCEPT
                    !.pc = "returned",
                    !.attempts = @ + 1,
                    !.currentErrorCategory = newErrorCategory,
                    !.sameErrorAttempts = same,
                    !.result = ImplementationFailed(
                        "Agent stuck on '" \o newErrorCategory \o "' error after "
                          \o ToString(same) \o " attempts (total attempts: "
                          \o ToString(engineer.attempts + 1) \o "): " \o error),
                    !.history = Append(@, Attempt("failed", error))]
            ELSE [engineer EXCEPT
                    !.attempts = @ + 1,
                    !.currentErrorCategory = newErrorCategory,
                    !.sameErrorAttempts = same,
                    !.lastError = error,
                    !.result = ImplementationFailed(error),
                    !.history = Append(@, Attempt("failed", error))]
    /\ UNCHANGED <<varsWorkflow, toolSet, runs>>

\* lines 136-137: the loop ended without a return
EngineerExhausted ==
    /\ engineer.pc = "loop"
    /\ ~attemptsRemain(engineer.attempts)
    /\ engineer' = [engineer EXCEPT
                      !.pc = "returned",
                      !.result = [@ EXCEPT !.Error =
                          "Agent failed after " \o ToString(maxAttempts)
                            \o " attempts. Last error: " \o @]]
    /\ UNCHANGED <<varsWorkflow, toolSet, runs>>

NextEngineer ==
    \/ EngineerTimedOut
    \/ \E llmErr \in LLMErrors : EngineerGenerateError(llmErr)
    \/ EngineerAttemptSucceeded
    \/ \E error \in ImplementationErrors : EngineerAttemptFailed(error)
    \/ EngineerExhausted

SpecEngineer == InitEngineer /\ [][NextEngineer]_vars

\* every call of the loop body returns: Generate runs under the per-agent
\* context and the tools return
SpecEngineerFair == SpecEngineer /\ WF_vars(NextEngineer)

(***************************************************************************)
(* parseActions called directly on a response.                             *)
(***************************************************************************)
InitParse ==
    /\ config = getDefaultWorkflowConfig
    /\ agents = AgentRoles
    /\ state = InitialState("")
    /\ result = InitialResult
    /\ agentResult = NoResult
    /\ agentErr = ""
    /\ invocations = 0
    /\ elapsed = 0
    /\ pc = "parse"
    /\ documented = 0
    /\ documentErr = ""
    /\ steps = <<>>
    /\ toolSet = NewToolSet("/app/projects")
    /\ runs = [s \in Sessions |-> IdleRun]
    /\ engineer = IdleEngineer
    /\ \E lines \in ResponseTexts :
          call = [lines |-> lines, response |-> Join(lines, "\n")]
    /\ ret = NoReturn

ParseCall ==
    /\ pc = "parse"
    /\ ret' = [actions |-> parseActions(call.response)]
    /\ pc' = "returned"
    /\ UNCHANGED <<config, agents, state, result, agentResult, agentErr, invocations, elapsed,
                   documented, documentErr, steps, toolSet, runs, engineer, call>>

NextParse == ParseCall

SpecParse == InitParse /\ [][NextParse]_vars

(***************************************************************************)
(* ExecuteCommand called directly, by the tool set and by the              *)
(* EXECUTE_COMMAND case of executeImplementation.                          *)
(***************************************************************************)
InitCommand ==
    /\ config = getDefaultWorkflowConfig
    /\ agents = AgentRoles
    /\ state = InitialState("")
    /\ result = InitialResult
    /\ agentResult = NoResult
    /\ agentErr = ""
    /\ invocations = 0
    /\ elapsed = 0
    /\ pc = "command"
    /\ documented = 0
    /\ documentErr = ""
    /\ steps = <<>>
    /\ toolSet = NewToolSet("/app/projects")
    /\ runs = [s \in Sessions |-> IdleRun]
    /\ engineer = IdleEngineer
    /\ call \in [commands : CommandValidators, command : Commands]
    /\ ret = NoReturn

\* ToolSet.ExecuteCommand
ToolExecuteCommand(process) ==
    /\ pc = "command"
    /\ ret' = [caller |-> "toolset",
               executed |-> ExecuteCommand(call.commands, call.command, process),
               response |-> NoResult]
    /\ pc' = "returned"
    /\ UNCHANGED <<config, agents, state, result, agentResult, agentErr, invocations, elapsed,
                   documented, documentErr, steps, toolSet, runs, engineer, call>>

\* executeImplementation, case EXECUTE_COMMAND of the action loop, up to the
\* return on failure or the end of the case
EngineerExecuteCommand(process) ==
    /\ pc = "command"
    /\ \E validation \in {ValidateCommand(call.commands, call.command)} :
         IF validation # ""
         THEN ret' = [caller |-> "engineer",
                      executed |-> [output |-> "", err |-> "", started |-> NoProcess],
                      response |->
                        ImplementationFailed("Command validation failed: "
                                               \o validation)]
         ELSE \E executed \in {ExecuteCommand(call.commands, call.command, process)} :
                ret' = [caller |-> "engineer",
                        executed |-> executed,
                        response |->
                          IF executed.err # ""
                          THEN [ImplementationFailed("Command execution failed: "
                                                       \o executed.err)
                                  EXCEPT !.BuildOutput = executed.output]
                          ELSE [ImplementationSucceeded EXCEPT
                                  !.Message = "", !.FilesModified = <<>>,
                                  !.CommandsExecuted = <<call.command>>,
                                  !.BuildOutput = executed.output \o "\n"]]
    /\ pc' = "returned"
    /\ UNCHANGED <<config, agents, state, result, agentResult, agentErr, invocations, elapsed,
                   documented, documentErr, steps, toolSet, runs, engineer, call>>

NextCommand ==
    \/ \E process \in ProcessResults : ToolExecuteCommand(process)
    \/ \E process \in ProcessResults : EngineerExecuteCommand(process)

SpecCommand == InitCommand /\ [][NextCommand]_vars

(***************************************************************************)
(* SeniorEngineer.executeImplementation on a list of parsed actions: one   *)
(* step per iteration of the action loop (lines 287-364), then the build   *)
(* command (lines 366-391).  ret holds the result built so far, the index  *)
(* of the action the loop is at and a log of what each iteration did.      *)
(***************************************************************************)
\* most actions of a response in the calls of executeImplementation
MaxActions == 3

\* the parsed actions the lists are made of
ParsedActions ==
    {[NewAction("READ_FILE") EXCEPT !.Path = "a.go"],
     [NewAction("WRITE_FILE") EXCEPT !.Path = "a.go", !.Content = "package a"],
     [NewAction("WRITE_FILE") EXCEPT !.Path = "b.go", !.Content = "package b"],
     [NewAction("LIST_FILES") EXCEPT !.Path = "."],
     [NewAction("FIND_FILES") EXCEPT !.Pattern = "*.go"],
     [NewAction("EXECUTE_COMMAND") EXCEPT !.Command = "go test ./..."],
     [NewAction("EXECUTE_COMMAND") EXCEPT !.Command = "rm -rf /"],
     NewAction("GIVE_UP"),
     NewAction("THINK")}

ActionLists == UNION {[1..n -> ParsedActions] : n \in 0..MaxActions}

\* the errors of the file tools, "" for nil
ToolErrors == {"", "permission denied"}

ProjectTypes == {"go", "unknown"}

\* SeniorEngineer.getBuildCommand
getBuildCommand(projectType) ==
    IF projectType = "go" THEN "go build ."
    ELSE IF projectType = "typescript" THEN "npm run build"
    ELSE IF projectType = "python" THEN "python -m py_compile *.py"
    ELSE ""

\* lines 276-282: the result before the first action
implementationStart ==
    [Response(TRUE, "", <<>>, "", "Ready for review and testing", "")
       EXCEPT !.CommandsExecuted = <<>>]

\* the result of a return from inside the loop
\* variant: the failure is returned in a fresh result
failedFresh(resp, error) ==
    [implementationStart EXCEPT !.Success = FALSE, !.Error = error]
failedWith(resp, error) == [resp EXCEPT !.Success = FALSE, !.Error = error]

LogEntry(index, outcome) == [index |-> index, outcome |-> outcome]

InitImplementation ==
    /\ config = getDefaultWorkflowConfig
    /\ agents = AgentRoles
    /\ state = InitialState("")
    /\ result = InitialResult
    /\ agentResult = NoResult
    /\ agentErr = ""
    /\ invocations = 0
    /\ elapsed = 0
    /\ pc = "actions"
    /\ documented = 0
    /\ documentErr = ""
    /\ steps = <<>>
    /\ toolSet = NewToolSet("/app/projects")
    /\ runs = [s \in Sessions |-> IdleRun]
    /\ engineer = IdleEngineer
    /\ call \in [actions : ActionLists,
                 commands : {cv \in CommandValidators : Len(cv.blockedPatterns) > 0},
                 projectType : ProjectTypes]
    /\ ret = [resp |-> implementationStart, next |-> 1, log |-> <<>>]

\* the loop is at an action of the type
atAction(actionType) ==
    /\ pc = "actions"
    /\ ret.next <= Len(call.actions)
    /\ call.actions[ret.next].Type = actionType

\* the iteration ends and the loop goes on with the result
continueWith(resp) ==
    /\ ret' = [resp |-> resp, next |-> ret.next + 1,
               log |-> Append(ret.log, LogEntry(ret.next, "done"))]
    /\ pc' = "actions"

\* the iteration returns the failed result
returnFailed(outcome, error) ==
    /\ ret' = [resp |-> failedWith(ret.resp, error), next |-> ret.next,
               log |-> Append(ret.log, LogEntry(ret.next, outcome))]
    /\ pc' = "returned"

implementationFrame ==
    UNCHANGED <<config, agents, state, result, agentResult, agentErr, invocations, elapsed,
                documented, documentErr, steps, toolSet, runs, engineer, call>>

\* lines 288-292
GiveUp ==
    /\ atAction("GIVE_UP")
    /\ returnFailed("give_up", "Agent decided to give up.")
    /\ implementationFrame

\* lines 295-302
ReadFileAction(err) ==
    /\ atAction("READ_FILE")
    /\ IF err # ""
       THEN returnFailed("failed", "Failed to read file "
                \o call.actions[ret.next].Path \o ": " \o err)
       ELSE continueWith(ret.resp)
    /\ implementationFrame

\* lines 304-311
WriteFileAction(err) ==
    /\ atAction("WRITE_FILE")
    /\ IF err # ""
       THEN returnFailed("failed", "Failed to write file "
                \o call.actions[ret.next].Path \o ": " \o err)
       ELSE continueWith([ret.resp EXCEPT
                !.FilesModified = Append(@, call.actions[ret.next].Path)])
    /\ implementationFrame

\* lines 313-324
ListFilesAction(err) ==
    /\ atAction("LIST_FILES")
    /\ IF err # ""
       THEN returnFailed("failed", "Failed to list files in "
                \o call.actions[ret.next].Path \o ": " \o err)
       ELSE continueWith([ret.resp EXCEPT
                !.BuildOutput = @ \o "Files in " \o call.actions[ret.next].Path
                                  \o ":\n  a.go\n"])
    /\ implementationFrame

\* lines 326-341
FindFilesAction(err) ==
    /\ atAction("FIND_FILES")
    /\ \E searchPath \in {IF call.actions[ret.next].SearchPath = "" THEN "."
                          ELSE call.actions[ret.next].SearchPath} :
         IF err # ""
         THEN returnFailed("failed", "Failed to find files with pattern '"
                  \o call.actions[ret.next].Pattern \o "' in " \o searchPath
                  \o ": " \o err)
         ELSE continueWith([ret.resp EXCEPT
                  !.BuildOutput = @ \o "Files matching '"
                                    \o call.actions[ret.next].Pattern \o "' in "
                                    \o searchPath \o ":\n  a.go\n"])
    /\ implementationFrame

\* lines 343-362
ExecuteCommandAction(process) ==
    /\ atAction("EXECUTE_COMMAND")
    /\ \E validation \in {ValidateCommand(call.commands, call.actions[ret.next].Command)} :
         IF validation # ""
         THEN returnFailed("rejected", "Command validation failed: " \o validation)
         ELSE \E executed \in {ExecuteCommand(call.commands,
                                              call.actions[ret.next].Command, process)} :
                IF executed.err # ""
                THEN /\ ret' = [resp |-> [failedWith(ret.resp,
                                             "Command execution failed: " \o executed.err)
                                            EXCEPT !.BuildOutput = executed.output],
                                next |-> ret.next,
                                log |-> Append(ret.log, LogEntry(ret.next, "failed"))]
                     /\ pc' = "returned"
                ELSE continueWith([ret.resp EXCEPT
                         !.CommandsExecuted = Append(@, call.actions[ret.next].Command),
                         !.BuildOutput = @ \o executed.output \o "\n"])
    /\ implementationFrame

\* an action of a type the switch has no case for
OtherAction ==
    /\ pc = "actions"
    /\ ret.next <= Len(call.actions)
    /\ call.actions[ret.next].Type \notin
         {"GIVE_UP", "READ_FILE", "WRITE_FILE", "LIST_FILES", "FIND_FILES",
          "EXECUTE_COMMAND"}
    /\ continueWith(ret.resp)
    /\ implementationFrame

\* lines 366-398: the build command after the last action
BuildCommand(process) ==
    /\ pc = "actions"
    /\ ret.next > Len(call.actions)
    /\ \E buildCommand \in {getBuildCommand(call.projectType)} :
         IF buildCommand # "" /\ ValidateCommand(call.commands, buildCommand) = ""
         THEN \E executed \in {ExecuteCommand(call.commands, buildCommand, process)} :
                IF executed.err # ""
                THEN ret' = [ret EXCEPT
                       !.resp = [failedWith(@, "Build failed: " \o executed.err)
                                   EXCEPT !.BuildOutput =
                                            @ \o "\nBuild Output:\n" \o executed.output],
                       !.log = Append(@, LogEntry(ret.next, "build_failed"))]
                ELSE ret' = [ret EXCEPT
                       !.resp = [@ EXCEPT
                                   !.CommandsExecuted = Append(@, buildCommand),
                                   !.BuildOutput =
                                       @ \o "\nBuild Output:\n" \o executed.output,
                                   !.Message = "Feature implemented successfully"],
                       !.log = Append(@, LogEntry(ret.next, "built"))]
         ELSE ret' = [ret EXCEPT
                !.resp = [@ EXCEPT !.Message = "Feature implemented successfully"],
                !.log = Append(@, LogEntry(ret.next, "no_build"))]
    /\ pc' = "returned"
    /\ implementationFrame

NextImplementation ==
    \/ GiveUp
    \/ \E err \in ToolErrors : ReadFileAction(err)
    \/ \E err \in ToolErrors : WriteFileAction(err)
    \/ \E err \in ToolErrors : ListFilesAction(err)
    \/ \E err \in ToolErrors : FindFilesAction(err)
    \/ \E process \in ProcessResults : ExecuteCommandAction(process)
    \/ OtherAction
    \/ \E process \in ProcessResults : BuildCommand(process)

SpecImplementation == InitImplementation /\ [][NextImplementation]_vars

(***************************************************************************)
(* Properties of the routing engine and the classifier, checked under      *)
(* SpecRoute in the states where the call has returned.                    *)
(***************************************************************************)

\* C1: whenever some rule of the current role is satisfied by the outcome,
\* RouteAgent returns the next role and the reason of a satisfied rule whose
\* priority is the maximum among the satisfied rules of that role.
C1_RouteMaxPriority ==
    pc = "returned" =>
        LET rs == rules(call.result)
            satisfied == {i \in 1..Len(rs) :
                            rs[i].FromAgent = call.currentAgent /\ rs[i].Condition}
        IN  satisfied # {} =>
                /\ ~ret.decision.err
                /\ \E i \in satisfied :
                      /\ rs[i].NextAgent = ret.decision.NextAgent
                      /\ rs[i].Reason = ret.decision.Reason
                      /\ \A j \in satisfied : rs[j].Priority <= rs[i].Priority

\* a call where a rule declared earlier and of lower priority is satisfied
\* too, and the decision is not the one of that rule
C1_Witness ==
    /\ pc = "returned"
    /\ LET rs == rules(call.result)
           satisfied == {i \in 1..Len(rs) :
                           rs[i].FromAgent = call.currentAgent /\ rs[i].Condition}
       IN  \E i, j \in satisfied :
              /\ i < j
              /\ rs[i].Priority < rs[j].Priority
              /\ rs[i].NextAgent # rs[j].NextAgent
              /\ ret.decision.Reason = rs[j].Reason

\* C2: the rule table is exhaustive: for every role and every outcome
\* RouteAgent returns a decision and never the error that no rule matched.
C2_RuleTableExhaustive ==
    pc = "returned" => ~ret.decision.err

\* C8: the classifier matches every pattern against the lower-cased
\* concatenation of Error, BuildOutput and Message and returns category and
\* severity of the matching pattern of highest severity, the earliest
\* declared one among those of equal severity, and unknown with severity 2
\* when no pattern matches.
C8_ClassifierHighestSeverity ==
    pc = "returned" =>
        LET text == ToLower(call.result.Error \o " " \o call.result.BuildOutput
                               \o " " \o call.result.Message)
            matching == {i \in 1..Len(errorPatterns) :
                            MatchString(errorPatterns[i].Pattern, text)}
        IN  IF matching = {}
            THEN ret.errorCtx.Category = "unknown" /\ ret.errorCtx.Severity = 2
            ELSE \E i \in matching :
                    /\ \A j \in matching :
                          \/ errorPatterns[j].Severity < errorPatterns[i].Severity
                          \/ /\ errorPatterns[j].Severity = errorPatterns[i].Severity
                             /\ i <= j
                    /\ ret.errorCtx.Category = errorPatterns[i].Category
                    /\ ret.errorCtx.Severity = errorPatterns[i].Severity

\* a text matched by two patterns of the same, highest severity and by a
\* pattern of lower severity declared before them or between them
C8_Witness ==
    /\ pc = "returned"
    /\ LET text == ToLower(call.result.Error \o " " \o call.result.BuildOutput
                              \o " " \o call.result.Message)
           matching == {i \in 1..Len(errorPatterns) :
                           MatchString(errorPatterns[i].Pattern, text)}
       IN  \E i, j \in matching :
              /\ i < j
              /\ errorPatterns[i].Severity = errorPatterns[j].Severity
              /\ errorPatterns[i].Category # errorPatterns[j].Category
              /\ \A k \in matching : errorPatterns[k].Severity <= errorPatterns[i].Severity
              /\ ret.errorCtx.Category = errorPatterns[i].Category

\* C9: for a failed result of the tech lead whose Error contains, in any
\* case, a marker of a structured rejection, RouteAgent returns the manager,
\* whatever quality or architecture keywords the text contains as well.
C9_StructuredRejectionToManager ==
    (/\ pc = "returned"
     /\ call.currentAgent = AgentRoleTechLead
     /\ ~call.result.Success
     /\ \E marker \in {"rejection_reason:", "route_to: engineering_manager",
                       "requirements_not_met", "security_concerns",
                       "unnecessary_duplication", "pattern_deviation"} :
            Contains(ToLower(call.result.Error), marker))
    => (~ret.decision.err /\ ret.decision.NextAgent = AgentRoleEM)

\* a rejection written in upper case whose text holds a quality keyword and
\* no architecture keyword, routed to the manager
C9_Witness ==
    /\ pc = "returned"
    /\ call.currentAgent = AgentRoleTechLead
    /\ ~call.result.Success
    /\ Contains(ToLower(call.result.Error), "rejection_reason:")
    /\ ~Contains(call.result.Error, "rejection_reason:")
    /\ isQualityIssue(call.result)
    /\ ~isArchitectureIssue(call.result)
    /\ ret.decision.NextAgent = AgentRoleEM

\* C10: a failed result of the engineer that the classifier puts in one of
\* the categories undefined_symbol, syntax_error, type_error, import_cycle
\* keeps control on the engineer and is not routed to the manager.
C10_BuildErrorsStayOnEngineer ==
    (/\ pc = "returned"
     /\ call.currentAgent = AgentRoleEngineer
     /\ ~call.result.Success
     /\ ret.errorCtx.Category \in {"undefined_symbol", "syntax_error", "type_error",
                                   "import_cycle"})
    => (~ret.decision.err /\ ret.decision.NextAgent = AgentRoleEngineer)

\* the engineer failed with "undefined: foo", classified undefined_symbol
\* with severity 4, and keeps control
C10_Witness ==
    /\ pc = "returned"
    /\ call.currentAgent = AgentRoleEngineer
    /\ ~call.result.Success
    /\ call.result.Error = "undefined: foo"
    /\ ret.errorCtx.Category = "undefined_symbol"
    /\ ret.errorCtx.Severity = 4
    /\ ret.decision.NextAgent = AgentRoleEngineer

(***************************************************************************)
(* Properties of the workflow controller, checked under Spec.              *)
(***************************************************************************)

\* C3: a run starts with the manager as current agent, and it ends with
\* Success = true if and only if the step just executed was the tech lead's,
\* its result had Success = true and the health check passed; a successful
\* result of another role never completes the workflow.
C3_CompleteOnlyAfterTechLead ==
    /\ state.CurrentAgent = AgentRoleEM
    /\ [][/\ (pc = "loop" /\ pc' = "finalize") =>
                (result'.Success <=>
                    /\ invocations' = invocations + 1
                    /\ agentErr' = ""
                    /\ agentResult'.Success
                    /\ state.CurrentAgent = AgentRoleTechLead
                    /\ validateWorkflowHealth(state) = "")
          /\ pc = "finalize" => result'.Success = result.Success]_vars

\* a finished run that the tech lead's successful step completed
C3_Witness ==
    /\ pc = "done"
    /\ result.Success
    /\ state.CurrentAgent = AgentRoleTechLead
    /\ agentResult.Success

\* C4 as stated: no count exceeds the maximum of its role (the configured
\* one, 2 for a role absent from the configuration), the sum of the counts
\* does not exceed MaxTotalIterations, and when the count of the current
\* role or the sum has reached its cap at the top of the loop, the run fails
\* with iteration_limit_exceeded and no step is invoked.
C4_IterationBudgetAsStated ==
    /\ [](\A role \in AgentRoles :
            state.IterationCounts[role] <=
                (IF role \in DOMAIN config.Agents
                 THEN config.Agents[role].MaxIterations ELSE 2))
    /\ [](state.IterationCounts[AgentRoleEM] + state.IterationCounts[AgentRoleEngineer]
            + state.IterationCounts[AgentRoleQA] + state.IterationCounts[AgentRoleTechLead]
          <= config.Workflow.MaxTotalIterations)
    /\ [][(/\ pc = "loop"
           /\ \/ state.IterationCounts[state.CurrentAgent] >=
                    (IF state.CurrentAgent \in DOMAIN config.Agents
                     THEN config.Agents[state.CurrentAgent].MaxIterations ELSE 2)
              \/ state.IterationCounts[AgentRoleEM]
                    + state.IterationCounts[AgentRoleEngineer]
                    + state.IterationCounts[AgentRoleQA]
                    + state.IterationCounts[AgentRoleTechLead]
                 >= config.Workflow.MaxTotalIterations)
          => (/\ invocations' = invocations
              /\ pc' = "finalize"
              /\ ~result'.Success
              /\ result'.FailureReason = "iteration_limit_exceeded")]_vars

\* C4, amended: as above, but when the timeout has elapsed at the top of the
\* same loop iteration the run fails with timeout instead; in both cases no
\* step is invoked.
C4_IterationBudget ==
    /\ [](\A role \in AgentRoles :
            state.IterationCounts[role] <=
                (IF role \in DOMAIN config.Agents
                 THEN config.Agents[role].MaxIterations ELSE 2))
    /\ [](state.IterationCounts[AgentRoleEM] + state.IterationCounts[AgentRoleEngineer]
            + state.IterationCounts[AgentRoleQA] + state.IterationCounts[AgentRoleTechLead]
          <= config.Workflow.MaxTotalIterations)
    /\ [][(/\ pc = "loop"
           /\ \/ state.IterationCounts[state.CurrentAgent] >=
                    (IF state.CurrentAgent \in DOMAIN config.Agents
                     THEN config.Agents[state.CurrentAgent].MaxIterations ELSE 2)
              \/ state.IterationCounts[AgentRoleEM]
                    + state.IterationCounts[AgentRoleEngineer]
                    + state.IterationCounts[AgentRoleQA]
                    + state.IterationCounts[AgentRoleTechLead]
                 >= config.Workflow.MaxTotalIterations)
          => (/\ invocations' = invocations
              /\ pc' = "finalize"
              /\ ~result'.Success
              /\ result'.FailureReason =
                    IF elapsed > config.Workflow.TimeoutMinutes
                    THEN "timeout" ELSE "iteration_limit_exceeded")]_vars

\* a run that failed at the cap of a role absent from the configuration,
\* within the timeout
C4_Witness ==
    /\ pc = "done"
    /\ result.FailureReason = "iteration_limit_exceeded"
    /\ state.CurrentAgent \notin DOMAIN config.Agents
    /\ state.IterationCounts[state.CurrentAgent] = 2
    /\ elapsed <= config.Workflow.TimeoutMinutes

\* C5: a run in which every step of the engineer fails and is routed back to
\* the engineer ends with iteration_limit_exceeded, for every configured
\* maximum of the engineer (the total cap and the timeout not firing first).
C5_SelfFixEndsAtIterationLimit ==
    (/\ pc = "done"
     /\ elapsed <= config.Workflow.TimeoutMinutes
     /\ agentErr = ""
     /\ Len(state.WorkflowHistory) >= 2
     /\ state.WorkflowHistory[1].FromAgent = AgentRoleEM
     /\ state.WorkflowHistory[1].ToAgent = AgentRoleEngineer
     /\ \A i \in 2..Len(state.WorkflowHistory) :
           /\ state.WorkflowHistory[i].FromAgent = AgentRoleEngineer
           /\ state.WorkflowHistory[i].ToAgent = AgentRoleEngineer
           /\ state.WorkflowHistory[i].Reason =
                 "Critical build errors detected, continuing implementation fixes"
     /\ ~agentResult.Success
     /\ agentResult.Error = "undefined: foo")
    => result.FailureReason = "iteration_limit_exceeded"

\* C6: after a successful invocation, when the first and the third of the
\* last three transitions of the history have the same FromAgent and the same
\* ToAgent, the run fails with workflow_health_failed, also when the history
\* holds exactly three transitions.
C6_LoopOfThreeDetected ==
    [][(/\ invocations' = invocations + 1
        /\ agentErr' = ""
        /\ Len(state.WorkflowHistory) >= 3
        /\ LET n == Len(state.WorkflowHistory) IN
              /\ state.WorkflowHistory[n - 2].FromAgent = state.WorkflowHistory[n].FromAgent
              /\ state.WorkflowHistory[n - 2].ToAgent = state.WorkflowHistory[n].ToAgent)
       => (/\ pc' = "finalize"
           /\ result'.FailureReason = "workflow_health_failed")]_vars

\* C7: when no loop is detected, the health check after a successful
\* invocation fails the run for excessive manager interventions exactly when
\* more than 3 of the last 5 transitions lead to the manager.
C7_ExcessiveEscalation ==
    [][(/\ invocations' = invocations + 1
        /\ agentErr' = ""
        /\ ~(/\ Len(state.WorkflowHistory) > 3
             /\ LET n == Len(state.WorkflowHistory) IN
                   /\ state.WorkflowHistory[n - 2].FromAgent
                         = state.WorkflowHistory[n].FromAgent
                   /\ state.WorkflowHistory[n - 2].ToAgent
                         = state.WorkflowHistory[n].ToAgent))
       => ((/\ pc' = "finalize"
            /\ result'.FailureReason = "workflow_health_failed"
            /\ result'.Error = "Workflow health check failed: "
                                 \o "excessive EM interventions, workflow may be stuck")
           <=> Cardinality({i \in 1..Len(state.WorkflowHistory) :
                               /\ i > Len(state.WorkflowHistory) - 5
                               /\ state.WorkflowHistory[i].ToAgent = AgentRoleEM}) > 3)]_vars

\* a run failed for excessive manager interventions with exactly four of the
\* last five transitions leading to the manager
C7_Witness ==
    /\ pc = "done"
    /\ result.FailureReason = "workflow_health_failed"
    /\ Contains(result.Error, "excessive EM interventions")
    /\ Cardinality({i \in 1..Len(state.WorkflowHistory) :
                       /\ i > Len(state.WorkflowHistory) - 5
                       /\ state.WorkflowHistory[i].ToAgent = AgentRoleEM}) = 4

\* C11: in a run where every invocation returns a successful result, the
\* engineer's with at least one modified file and the QA's with a modified
\* file named as a test file, the roles run in the order manager, engineer,
\* QA, tech lead: before the tech lead's step the run is at the top of the
\* loop with the next role of that order as current agent, unless the timeout
\* ended it; once the tech lead has run, the roles ran exactly once each in
\* that order, the run has left the loop with Success = true, and
\* CompletedPhases holds the four roles.
C11_ScenarioA ==
    LET order == <<AgentRoleEM, AgentRoleEngineer, AgentRoleQA, AgentRoleTechLead>> IN
    (\A i \in 1..Len(steps) :
        /\ steps[i].err = ""
        /\ steps[i].res.Success
        /\ steps[i].role = AgentRoleEngineer => Len(steps[i].res.FilesModified) >= 1
        /\ steps[i].role = AgentRoleQA =>
              \E k \in 1..Len(steps[i].res.FilesModified) :
                 \E name \in {ToLower(steps[i].res.FilesModified[k])} :
                    \/ Contains(name, "_test.go") \/ Contains(name, ".test.js")
                    \/ Contains(name, ".test.ts") \/ Contains(name, ".spec.js")
                    \/ Contains(name, ".spec.ts") \/ Contains(name, "test_")
                    \/ Contains(name, "_test.py") \/ Contains(name, "/test/")
                    \/ Contains(name, "/tests/"))
    => /\ Len(steps) <= 4
       /\ \A i \in 1..Len(steps) : steps[i].role = order[i]
       /\ Len(steps) < 4 =>
             \/ pc = "loop" /\ state.CurrentAgent = order[Len(steps) + 1] /\ result.Success
             \/ pc # "loop" /\ result.FailureReason = "timeout"
       /\ Len(steps) = 4 =>
             /\ pc \in {"finalize", "done"}
             /\ result.Success
             /\ result.FailureReason = ""
             /\ \A role \in AgentRoles :
                   \E k \in 1..Len(result.CompletedPhases) :
                      result.CompletedPhases[k] = role

\* a finished run of four successful steps, the QA's with a test file
C11_Witness ==
    /\ pc = "done"
    /\ Len(steps) = 4
    /\ \A i \in 1..4 : steps[i].err = "" /\ steps[i].res.Success
    /\ steps[2].res.FilesModified = <<"main.go">>
    /\ steps[3].res.FilesModified = <<"pkg/Main_Test.go">>
    /\ steps[4].role = AgentRoleTechLead
    /\ result.Success

C13_RecoveryTable ==
    [][(/\ invocations' = invocations + 1
        /\ agentErr' # "")
       => \E msg \in {ToLower(agentErr')} :
             \E entry \in {IF Contains(msg, "connection") \/ Contains(msg, "timeout") THEN 1
                           ELSE IF Contains(msg, "not registered") THEN 2
                           ELSE IF Contains(msg, "command") \/ Contains(msg, "restricted")
                           THEN 3
                           ELSE IF Contains(msg, "file") \/ Contains(msg, "directory") THEN 4
                           ELSE IF Contains(msg, "deadline") \/ Contains(msg, "context")
                           THEN 5
                           ELSE 0} :
                IF entry = 0
                THEN /\ pc' = "finalize"
                     /\ ~result'.Success
                     /\ result'.FailureReason = categorizeFailure(agentErr')
                ELSE /\ pc' = "loop"
                     /\ result'.Success
                     /\ state'.CurrentAgent =
                           IF entry = 1 THEN state.CurrentAgent ELSE AgentRoleEM
                     /\ state'.WorkflowHistory[Len(state'.WorkflowHistory)].Reason =
                           "Error recovery: " \o
                              <<"Connection error, retrying",
                                "Agent unavailable, replanning",
                                "Command restrictions, need alternative approach",
                                "File system issue, need planning support",
                                "Timeout occurred, simplifying approach">>[entry]]_vars

\* the engineer is retried after an error that names a connection timeout
\* and a restricted command
C13_Witness ==
    /\ Len(steps) >= 1
    /\ steps[Len(steps)].role = AgentRoleEngineer
    /\ steps[Len(steps)].err = "Command Restricted: connection timeout"
    /\ pc = "loop"
    /\ state.CurrentAgent = AgentRoleEngineer
    /\ state.WorkflowHistory[Len(state.WorkflowHistory)].Reason
          = "Error recovery: Connection error, retrying"

\* C14: a recovered invocation error appends exactly one transition, from
\* the current role to the recovery target with a reason that starts with
\* 'Error recovery: ', makes the target the current agent, and leaves the
\* iteration counts, the task description and the result unchanged; the run
\* stays in the loop whatever the health check or the routing engine would
\* say.
C14_RecoveryFrame ==
    [][(/\ invocations' = invocations + 1
        /\ agentErr' # ""
        /\ analyzeAndRecoverFromError(agentErr', state).CanRecover)
       => (/\ pc' = "loop"
           /\ Len(state'.WorkflowHistory) = Len(state.WorkflowHistory) + 1
           /\ SubSeq(state'.WorkflowHistory, 1, Len(state.WorkflowHistory))
                 = state.WorkflowHistory
           /\ LET last == state'.WorkflowHistory[Len(state'.WorkflowHistory)] IN
                 /\ last.FromAgent = state.CurrentAgent
                 /\ last.ToAgent = analyzeAndRecoverFromError(agentErr', state).NextAgent
                 /\ SubSeq(last.Reason, 1, 16) = "Error recovery: "
           /\ state'.CurrentAgent = analyzeAndRecoverFromError(agentErr', state).NextAgent
           /\ state'.IterationCounts = state.IterationCounts
           /\ state'.TaskDescription = state.TaskDescription
           /\ result' = result)]_vars

\* a recovery taken although the history before it fails the health check
C14_Witness ==
    /\ pc = "loop"
    /\ Len(steps) >= 1
    /\ steps[Len(steps)].err # ""
    /\ Len(state.WorkflowHistory) >= 5
    /\ SubSeq(state.WorkflowHistory[Len(state.WorkflowHistory)].Reason, 1, 16)
          = "Error recovery: "
    /\ validateWorkflowHealth(
          [state EXCEPT !.WorkflowHistory = SubSeq(@, 1, Len(@) - 1)]) # ""

\* C15: when the Generate call fails during a step, the step reports an
\* error to the controller, and the recovery table decides what happens
\* next: a recovery transition is recorded, or the run fails with the reason
\* of categorizeFailure.
C15_GenerateErrorIsInvocationError ==
    [][(/\ invocations' = invocations + 1
        /\ steps'[Len(steps')].llmErr # "")
       => (/\ agentErr' # ""
           /\ \/ /\ pc' = "loop"
                 /\ Len(state'.WorkflowHistory) = Len(state.WorkflowHistory) + 1
                 /\ SubSeq(state'.WorkflowHistory[Len(state'.WorkflowHistory)].Reason, 1, 16)
                       = "Error recovery: "
              \/ /\ pc' = "finalize"
                 /\ ~result'.Success
                 /\ result'.FailureReason = categorizeFailure(agentErr'))]_vars

\* C16: a result with Success = false carries a non-empty Error and a
\* FailureReason out of the ten tags timeout, iteration_limit_exceeded,
\* workflow_health_failed, routing_failed, agent_unavailable,
\* command_restriction, filesystem_error, configuration_error, git_error and
\* unknown_error; a result with Success = true has an empty FailureReason.
C16_FailureReasonTags ==
    /\ ~result.Success =>
          /\ result.Error # ""
          /\ result.FailureReason \in
                {"timeout", "iteration_limit_exceeded", "workflow_health_failed",
                 "routing_failed", "agent_unavailable", "command_restriction",
                 "filesystem_error", "configuration_error", "git_error", "unknown_error"}
    /\ result.Success => result.FailureReason = ""

\* a returned result of a run that an unrecoverable invocation error failed
C16_Witness ==
    /\ pc = "done"
    /\ ~result.Success
    /\ agentErr = "failed to get git diff: exit status 128"
    /\ result.FailureReason = "git_error"
    /\ result.Error = "Agent execution failed: failed to get git diff: exit status 128"

\* C17: Failed is terminal: a run whose result has Success = false has left
\* the loop, and from then on no agent is invoked, no transition is appended
\* to the history and the result stays failed.
C17_FailedIsTerminal ==
    /\ [](~result.Success => pc \in {"finalize", "done"})
    /\ [][~result.Success =>
             /\ invocations' = invocations
             /\ steps' = steps
             /\ state'.WorkflowHistory = state.WorkflowHistory
             /\ state'.CurrentAgent = state.CurrentAgent
             /\ ~result'.Success
             /\ result'.FailureReason = result.FailureReason]_vars

\* a returned result of a run that failed in the routing branch after two
\* transitions
C17_Witness ==
    /\ pc = "done"
    /\ ~result.Success
    /\ result.FailureReason = "routing_failed"
    /\ Len(result.WorkflowHistory) = 2
    /\ Len(steps) = 3

\* C18: DocumentTask is called on the manager exactly once in a run that
\* ended with Success = true and never in another run, and not before the
\* loop has ended; an error it returns leaves Success = true and the
\* FailureReason empty.
C18_DocumentTaskOnSuccessOnly ==
    /\ pc = "done" => (documented = 1 <=> result.Success)
    /\ pc = "done" => (documented = 0 <=> ~result.Success)
    /\ pc # "done" => documented = 0
    /\ documentErr # "" =>
          /\ documented = 1
          /\ result.Success
          /\ result.FailureReason = ""

\* a returned result of a successful run whose DocumentTask call failed
C18_Witness ==
    /\ pc = "done"
    /\ documented = 1
    /\ documentErr = "failed to generate documentation from LLM: connection refused"
    /\ result.Success
    /\ result.FailureReason = ""

\* C19: WorkflowHistory is append-only: after every step of a run the history
\* is the history before the step, or that history with exactly one
\* transition appended; a step that ends the loop, the health check and the
\* routing of a failed run among them, leaves it as it was.
C19_HistoryAppendOnly ==
    [][/\ \/ state'.WorkflowHistory = state.WorkflowHistory
          \/ /\ Len(state'.WorkflowHistory) = Len(state.WorkflowHistory) + 1
             /\ SubSeq(state'.WorkflowHistory, 1, Len(state.WorkflowHistory))
                   = state.WorkflowHistory
       /\ pc' # "loop" => state'.WorkflowHistory = state.WorkflowHistory
       /\ pc' = "done" => result'.WorkflowHistory = state.WorkflowHistory]_vars

\* a history of a recovery transition followed by routed transitions
C19_Witness ==
    /\ Len(state.WorkflowHistory) >= 3
    /\ SubSeq(state.WorkflowHistory[1].Reason, 1, 16) = "Error recovery: "
    /\ SubSeq(state.WorkflowHistory[2].Reason, 1, 16) # "Error recovery: "
    /\ state.WorkflowHistory[3].FromAgent = AgentRoleEngineer
    /\ pc = "done"
    /\ result.WorkflowHistory = state.WorkflowHistory

(***************************************************************************)
(* Properties of concurrent workflow runs, checked under SpecSessions.     *)
(***************************************************************************)
\* C20: when two runs with different working directories execute on one
\* server, every file, git and command operation of a run uses the working
\* directory of that run's own request.
C20_OwnWorkingDirectory ==
    (/\ \A s \in Sessions : runs[s].pc # "idle"
     /\ \A s, t \in Sessions : s # t => runs[s].dir # runs[t].dir)
    => \A s \in Sessions :
          runs[s].lastOp # NoOperation => runs[s].lastOp.dir = runs[s].dir

(***************************************************************************)
(* Further properties of the workflow controller, checked under Spec.      *)
(***************************************************************************)
\* C21: when the workflow timeout elapses while an agent step is in flight,
\* the step is aborted and the run fails with timeout: the result of the
\* step is not merged, no transition is recorded and the run leaves the loop
\* with FailureReason timeout.
C21_TimeoutAbortsStep ==
    [][(/\ invocations' = invocations + 1
        /\ elapsed <= config.Workflow.TimeoutMinutes
        /\ elapsed' > config.Workflow.TimeoutMinutes)
       => (/\ pc' = "finalize"
           /\ ~result'.Success
           /\ result'.FailureReason = "timeout"
           /\ result'.CompletedPhases = result.CompletedPhases
           /\ state' = state)]_vars


(***************************************************************************)
(* Properties of the attempt loop of the engineer, checked under           *)
(* SpecEngineer and SpecEngineerFair.                                      *)
(***************************************************************************)

C23_StuckBreaker ==
    LET h == engineer.history
        n == Len(h)
        cat(i) == errorCategories[h[i].error]
        run(i) == /\ i >= 3
                  /\ h[i].kind = "failed"
                  /\ cat(i - 1) = cat(i)
                  /\ cat(i - 2) = cat(i)
        stuck == /\ engineer.pc = "returned"
                 /\ Len(engineer.result.Error) >= 14
                 /\ SubSeq(engineer.result.Error, 1, 14) = "Agent stuck on"
    IN  /\ stuck <=> (engineer.pc = "returned" /\ run(n))
        /\ \A i \in 1..(n - 1) : ~run(i)
        /\ engineer.pc = "loop" => ~run(n)
        /\ (n > 0 /\ h[n].kind = "failed")
             => /\ engineer.currentErrorCategory = cat(n)
                /\ engineer.sameErrorAttempts >= 1
                /\ engineer.sameErrorAttempts <= n
                /\ \A i \in (n - engineer.sameErrorAttempts + 1)..n : cat(i) = cat(n)
                /\ engineer.sameErrorAttempts < n
                     => cat(n - engineer.sameErrorAttempts) # cat(n)

\* two failures of one category, then three of another: the breaker fires
\* on the fifth attempt, the counter having restarted on the third
C23_Witness ==
    /\ engineer.pc = "returned"
    /\ Len(engineer.history) = 5
    /\ engineer.sameErrorAttempts = 3
    /\ Len(engineer.result.Error) >= 14
    /\ SubSeq(engineer.result.Error, 1, 14) = "Agent stuck on"
    /\ errorCategories[engineer.history[1].error] = errorCategories[engineer.history[2].error]
    /\ errorCategories[engineer.history[2].error] # errorCategories[engineer.history[3].error]


(***************************************************************************)
(* Properties of parseActions, checked under SpecParse in the states where *)
(* the call has returned.                                                  *)
(***************************************************************************)

\* C24: parseActions returns one action for each line that begins, once
\* trimmed, with ACTION:, in the order of these lines; the Type of an action
\* is the trimmed text after the marker, and its Path is the value of the
\* last PATH: line between its own ACTION: line and the next one (or the
\* end of the response), so every action is saved when the next one opens
\* or the input ends.
C24_OneActionPerMarker ==
    pc = "returned" =>
      LET lines == call.lines
          marks == {i \in 1..Len(lines) : HasPrefix(TrimSpace(lines[i]), "ACTION:")}
          mark(k) == IF k > Cardinality(marks) THEN Len(lines) + 1
                     ELSE CHOOSE i \in marks : Cardinality({j \in marks : j < i}) = k - 1
          paths(k) == {i \in (mark(k) + 1)..(mark(k + 1) - 1) :
                          HasPrefix(TrimSpace(lines[i]), "PATH:")}
      IN  /\ Len(ret.actions) = Cardinality(marks)
          /\ \A k \in 1..Len(ret.actions) :
                /\ ret.actions[k].Type =
                     TrimSpace(TrimPrefix(TrimSpace(lines[mark(k)]), "ACTION:"))
                /\ ret.actions[k].Path =
                     IF paths(k) = {} THEN ""
                     ELSE TrimSpace(TrimPrefix(
                            TrimSpace(lines[CHOOSE i \in paths(k) :
                                               \A j \in paths(k) : j <= i]),
                            "PATH:"))

\* a WRITE_FILE action with its path, saved by the GIVE_UP line that follows
C24_Witness ==
    /\ pc = "returned"
    /\ call.lines = <<"ACTION: WRITE_FILE", "PATH: a.go", " ACTION:GIVE_UP ">>
    /\ Len(ret.actions) = 2
    /\ ret.actions[1].Type = "WRITE_FILE"
    /\ ret.actions[1].Path = "a.go"
    /\ ret.actions[2].Type = "GIVE_UP"


\* C25: for every action whose part of the response holds a CONTENT: line,
\* the Content is the lines after the first such line up to the next
\* ACTION: line or the end of the response, each as it stands in the
\* response, joined by newlines, but for the lines that are a code fence and
\* nothing else (white space around the whole content not counted).
C25_ContentVerbatim ==
    pc = "returned" =>
      LET lines == call.lines
          marks == {i \in 1..Len(lines) : HasPrefix(TrimSpace(lines[i]), "ACTION:")}
          mark(k) == IF k > Cardinality(marks) THEN Len(lines) + 1
                     ELSE CHOOSE i \in marks : Cardinality({j \in marks : j < i}) = k - 1
          contents(k) == {i \in (mark(k) + 1)..(mark(k + 1) - 1) :
                             TrimSpace(lines[i]) = "CONTENT:"}
          first(k) == CHOOSE i \in contents(k) : \A j \in contents(k) : i <= j
          verbatim(from, to) ==
              LET text[i \in (from - 1)..to] ==
                      IF i < from THEN <<>>
                      ELSE IF TrimSpace(lines[i]) = codeFence THEN text[i - 1]
                      ELSE Append(text[i - 1], lines[i])
              IN  Join(text[to], "\n")
      IN  \A k \in 1..Cardinality(marks) :
             contents(k) # {}
               => /\ k <= Len(ret.actions)
                  /\ ret.actions[k].Content =
                       TrimSpace(verbatim(first(k) + 1, mark(k + 1) - 1))


\* C26: parseActions returns a list of actions for every response; the
\* lines before the first ACTION: line change nothing, the result being that
\* of the response from its first ACTION: line on; a response without an
\* ACTION: line yields the empty list.
C26_LinesBeforeFirstActionIgnored ==
    pc = "returned" =>
      LET lines == call.lines
          marks == {i \in 1..Len(lines) : HasPrefix(TrimSpace(lines[i]), "ACTION:")}
      IN  /\ DOMAIN ret = {"actions"}
          /\ DOMAIN ret.actions = 1..Len(ret.actions)
          /\ \A k \in 1..Len(ret.actions) :
                DOMAIN ret.actions[k] = DOMAIN NewAction("")
          /\ IF marks = {} THEN ret.actions = <<>>
             ELSE \E first \in marks :
                    /\ \A j \in marks : first <= j
                    /\ ret.actions =
                         parseActions(Join(SubSeq(lines, first, Len(lines)), "\n"))

\* a CONTENT: line and a PATH: line before the only ACTION: line: the action
\* has neither a path nor content
C26_Witness ==
    /\ pc = "returned"
    /\ call.lines = <<"CONTENT:", "PATH: a.go", "ACTION: WRITE_FILE", "hello">>
    /\ ret.actions = <<NewAction("WRITE_FILE")>>


(***************************************************************************)
(* A property of the rule table, checked under SpecRoute.                  *)
(***************************************************************************)

\* C27: two different rules of the table with the same FromAgent never have
\* the same Priority.
C27_DistinctPriorities ==
    LET rs == rules(call.result)
    IN  \A i, j \in 1..Len(rs) :
           (i # j /\ rs[i].FromAgent = rs[j].FromAgent)
             => rs[i].Priority # rs[j].Priority


(***************************************************************************)
(* Further properties of the workflow loop, checked under Spec and, for    *)
(* the health check, under SpecReview.                                     *)
(***************************************************************************)

C30_HealthBeforeCompletion ==
    [][(invocations' = invocations + 1 /\ agentErr' = "")
         => IF validateWorkflowHealth(state) # ""
            THEN /\ pc' = "finalize"
                 /\ ~result'.Success
                 /\ result'.FailureReason = "workflow_health_failed"
                 /\ \A k \in 1..Len(result'.CompletedPhases) :
                       result'.CompletedPhases[k] # "workflow_complete"
                 /\ state' = state
            ELSE result'.FailureReason # "workflow_health_failed"]_vars

\* the TechLead approved on a history that fails the health check: the run
\* ended failed
C30_Witness ==
    /\ pc = "finalize"
    /\ result.FailureReason = "workflow_health_failed"
    /\ ~result.Success
    /\ steps # <<>>
    /\ steps[Len(steps)].role = AgentRoleTechLead
    /\ steps[Len(steps)].err = ""
    /\ steps[Len(steps)].res.Success
    /\ validateWorkflowHealth(state) # ""


(***************************************************************************)
(* A property of the command validator, checked under SpecCommand in the   *)
(* states where the call has returned.                                     *)
(***************************************************************************)

\* C29: a process is started only for a command that, once trimmed, begins
\* with an allowed entry and holds no blocked pattern; every such command is
\* handed to the shell; every other command, a command with an allowed
\* prefix and a blocked pattern included, starts no process and comes back
\* with the error that the command is not allowed.
C29_OnlyValidatedCommandsRun ==
    pc = "returned" =>
      LET trimmed == TrimSpace(call.command)
          allowed == call.commands.allowed
          blocked == call.commands.blockedPatterns
          prefixed == \E k \in 1..Len(allowed) :
                         /\ Len(trimmed) >= Len(allowed[k])
                         /\ SubSeq(trimmed, 1, Len(allowed[k])) = allowed[k]
          vetoed == \E k \in 1..Len(blocked) :
                       \E i \in 1..(Len(trimmed) - Len(blocked[k]) + 1) :
                          SubSeq(trimmed, i, i + Len(blocked[k]) - 1) = blocked[k]
      IN  IF prefixed /\ ~vetoed
          THEN /\ ret.executed.started # NoProcess
               /\ ret.executed.started.args = <<"-c", call.command>>
          ELSE /\ ret.executed.started = NoProcess
               /\ ret.executed.output = ""
               /\ ret.caller = "toolset"
                    => ret.executed.err = "command not allowed: " \o call.command
               /\ ret.caller = "engineer"
                    => /\ ~ret.response.Success
                       /\ ret.response.CommandsExecuted = <<>>
                       /\ ret.response.Error =
                            "Command validation failed: command not allowed: "
                              \o call.command

\* a command with an allowed prefix and a blocked pattern is rejected
C29_Witness ==
    /\ pc = "returned"
    /\ call.command = "go build && rm -rf /tmp"
    /\ Len(call.commands.blockedPatterns) = 4
    /\ ret.caller = "toolset"
    /\ ret.executed.started = NoProcess
    /\ ret.executed.err = "command not allowed: go build && rm -rf /tmp"


(***************************************************************************)
(* Properties of the bookkeeping of the workflow loop, checked under Spec. *)
(***************************************************************************)

\* C31: a step that routes the run on appends exactly one transition, from
\* the role that ran to the role the routing engine returned, adds one to
\* the iteration count of the role that ran, leaves the counts of the other
\* roles as they were and makes the returned role the current one.
C31_RoutedStepFrame ==
    [][(invocations' = invocations + 1 /\ agentErr' = "" /\ pc' = "loop")
         => /\ Len(state'.WorkflowHistory) = Len(state.WorkflowHistory) + 1
            /\ SubSeq(state'.WorkflowHistory, 1, Len(state.WorkflowHistory))
                 = state.WorkflowHistory
            /\ state'.WorkflowHistory[Len(state'.WorkflowHistory)].FromAgent
                 = state.CurrentAgent
            /\ state'.WorkflowHistory[Len(state'.WorkflowHistory)].ToAgent
                 = state'.CurrentAgent
            /\ state'.CurrentAgent = routeToNextAgent(state, agentResult').NextAgent
            /\ \A role \in AgentRoles :
                  state'.IterationCounts[role] =
                    IF role = state.CurrentAgent
                    THEN state.IterationCounts[role] + 1
                    ELSE state.IterationCounts[role]]_vars

\* the engineer failed and was routed to itself, then succeeded and was
\* routed to the tester: two transitions from the engineer, a count of two
C31_Witness ==
    /\ pc = "loop"
    /\ Len(state.WorkflowHistory) = 3
    /\ state.WorkflowHistory[2].FromAgent = AgentRoleEngineer
    /\ state.WorkflowHistory[2].ToAgent = AgentRoleEngineer
    /\ state.WorkflowHistory[3].FromAgent = AgentRoleEngineer
    /\ state.WorkflowHistory[3].ToAgent = AgentRoleQA
    /\ state.CurrentAgent = AgentRoleQA
    /\ state.IterationCounts[AgentRoleEM] = 1
    /\ state.IterationCounts[AgentRoleEngineer] = 2
    /\ state.IterationCounts[AgentRoleQA] = 0
    /\ state.IterationCounts[AgentRoleTechLead] = 0


(***************************************************************************)
(* A property of executeImplementation, checked under SpecImplementation.  *)
(***************************************************************************)

\* C32: the actions are processed in the order of the list; an iteration
\* that meets GIVE_UP, a failing tool call or a command the validator
\* rejects is the last one, the call returns with Success false and no
\* later action and no build command is run; the files written and the
\* commands run by the iterations before it stay in the result.
C32_StopsAtFirstFailure ==
    LET log == ret.log
        actions == call.actions
        ran(k) == k <= Len(actions) /\ log[k].outcome = "done"
        written[k \in 0..Len(log)] ==
            IF k = 0 THEN <<>>
            ELSE IF ran(k) /\ actions[k].Type = "WRITE_FILE"
                 THEN Append(written[k - 1], actions[k].Path)
                 ELSE written[k - 1]
        commanded[k \in 0..Len(log)] ==
            IF k = 0 THEN <<>>
            ELSE IF ran(k) /\ actions[k].Type = "EXECUTE_COMMAND"
                 THEN Append(commanded[k - 1], actions[k].Command)
                 ELSE IF log[k].outcome = "built"
                 THEN Append(commanded[k - 1], "go build .")
                 ELSE commanded[k - 1]
    IN  /\ \A k \in 1..Len(log) :
              /\ log[k].index = k
              /\ log[k].outcome \in {"give_up", "failed", "rejected"}
                   => /\ k = Len(log)
                      /\ k <= Len(actions)
                      /\ pc = "returned"
                      /\ ~ret.resp.Success
              /\ (k <= Len(actions) /\ actions[k].Type = "GIVE_UP")
                   => log[k].outcome = "give_up"
              /\ (k <= Len(actions) /\ actions[k].Command = "rm -rf /")
                   => log[k].outcome = "rejected"
        /\ ret.resp.FilesModified = written[Len(log)]
        /\ ret.resp.CommandsExecuted = commanded[Len(log)]
        /\ pc = "actions" => ret.resp.Success /\ ret.next = Len(log) + 1

\* a file is written, the next action gives up, a third action is left: the
\* call returned failed with the first file in FilesModified
C32_Witness ==
    /\ pc = "returned"
    /\ Len(call.actions) = 3
    /\ call.actions[1].Type = "WRITE_FILE"
    /\ call.actions[2].Type = "GIVE_UP"
    /\ call.actions[3].Type = "WRITE_FILE"
    /\ Len(ret.log) = 2
    /\ ~ret.resp.Success
    /\ ret.resp.Error = "Agent decided to give up."
    /\ ret.resp.FilesModified = <<call.actions[1].Path>>


(***************************************************************************)
(* Further properties of the routing engine, checked under SpecRoute.      *)
(***************************************************************************)

\* C33: for every role and every result with Success false RouteAgent
\* returns a decision for one of the four roles, a rule of the role whose
\* condition is the failure alone being satisfied; the error that no rule
\* matched is returned for results with Success true only.
C33_FailureAlwaysRouted ==
    pc = "returned" =>
      /\ ~call.result.Success
           => /\ ~ret.decision.err
              /\ ret.decision.NextAgent \in AgentRoles
              /\ \E i \in 1..Len(rulesFor(call.result, ret.errorCtx)) :
                    /\ rulesFor(call.result, ret.errorCtx)[i].FromAgent = call.currentAgent
                    /\ rulesFor(call.result, ret.errorCtx)[i].Priority = 5
                    /\ rulesFor(call.result, ret.errorCtx)[i].Condition
      /\ ret.decision.err => call.result.Success

\* a failed result of the tester that only the catch-all rule is satisfied by
C33_Witness ==
    /\ pc = "returned"
    /\ call.currentAgent = AgentRoleQA
    /\ ~call.result.Success
    /\ ~ret.decision.err
    /\ ret.decision.Priority = 5
    /\ ret.decision.Reason = "QA process failed, need guidance"
    /\ ret.decision.NextAgent = AgentRoleEM

\* C40: among the applicable rules of the highest priority RouteAgent returns
\* the one declared first: no applicable rule declared before the returned one
\* has a priority as high, and none at all has a higher one.  So a failed
\* TechLead result whose error names both a quality and an architecture
\* issue, without a structured rejection, goes to the Engineer, and a failed
\* QA result classified no_tests whose message says the code is not testable
\* stays with QA.
C40_FirstDeclaredWinsTie ==
    (pc = "returned" /\ ~ret.decision.err) =>
      /\ \E i \in 1..Len(rulesFor(call.result, ret.errorCtx)) :
            /\ rulesFor(call.result, ret.errorCtx)[i].FromAgent = call.currentAgent
            /\ rulesFor(call.result, ret.errorCtx)[i].Condition
            /\ rulesFor(call.result, ret.errorCtx)[i].Reason = ret.decision.Reason
            /\ rulesFor(call.result, ret.errorCtx)[i].NextAgent = ret.decision.NextAgent
            /\ \A j \in 1..Len(rulesFor(call.result, ret.errorCtx)) :
                  (/\ rulesFor(call.result, ret.errorCtx)[j].FromAgent = call.currentAgent
                   /\ rulesFor(call.result, ret.errorCtx)[j].Condition)
                  => /\ rulesFor(call.result, ret.errorCtx)[j].Priority
                          <= rulesFor(call.result, ret.errorCtx)[i].Priority
                     /\ j < i => rulesFor(call.result, ret.errorCtx)[j].Priority
                                    < rulesFor(call.result, ret.errorCtx)[i].Priority
      /\ (/\ call.currentAgent = AgentRoleTechLead
          /\ ~call.result.Success
          /\ isQualityIssue(call.result)
          /\ isArchitectureIssue(call.result)
          /\ ~isStructuredRejection(call.result))
         => ret.decision.NextAgent = AgentRoleEngineer
      /\ (/\ call.currentAgent = AgentRoleQA
          /\ ~call.result.Success
          /\ ret.errorCtx.Category = "no_tests"
          /\ isNonTestableCode(call.result))
         => ret.decision.NextAgent = AgentRoleQA

\* a TechLead result with "poor code quality and structure" satisfies the
\* quality rule and the architecture rule, both of priority 15, and the
\* quality rule, declared first, is returned
C40_Witness ==
    /\ pc = "returned"
    /\ call.currentAgent = AgentRoleTechLead
    /\ ~call.result.Success
    /\ call.result.Error = "poor code quality and structure"
    /\ isQualityIssue(call.result)
    /\ isArchitectureIssue(call.result)
    /\ ret.decision.Priority = 15
    /\ ret.decision.Reason = "Quality issues found, need implementation fixes"
    /\ ret.decision.NextAgent = AgentRoleEngineer

(***************************************************************************)
(* Properties of the workflow history, checked under Spec.                 *)
(***************************************************************************)
\* C34: the workflow history is a chain: its first transition leaves the
\* Engineering Manager, every transition leaves the role the one before it
\* led to, routed steps and error recoveries alike, and the last transition
\* leads to the current role.
C34_HistoryIsChain ==
    /\ state.WorkflowHistory = <<>> => state.CurrentAgent = AgentRoleEM
    /\ state.WorkflowHistory # <<>> =>
         /\ state.WorkflowHistory[1].FromAgent = AgentRoleEM
         /\ \A i \in 1..(Len(state.WorkflowHistory) - 1) :
               state.WorkflowHistory[i].ToAgent = state.WorkflowHistory[i + 1].FromAgent
         /\ state.WorkflowHistory[Len(state.WorkflowHistory)].ToAgent = state.CurrentAgent

\* a history that mixes routed steps and a recovery between two roles
C34_Witness ==
    /\ Len(state.WorkflowHistory) >= 3
    /\ \E i \in 1..Len(state.WorkflowHistory) :
          /\ HasPrefix(state.WorkflowHistory[i].Reason, "Error recovery: ")
          /\ state.WorkflowHistory[i].FromAgent # state.WorkflowHistory[i].ToAgent
    /\ \E i \in 1..Len(state.WorkflowHistory) :
          /\ ~HasPrefix(state.WorkflowHistory[i].Reason, "Error recovery: ")
          /\ state.WorkflowHistory[i].FromAgent # state.WorkflowHistory[i].ToAgent
    /\ state.CurrentAgent = AgentRoleEngineer

\* C35: at most MaxTotalIterations invocations of a run return without an
\* invocation error, whatever time they take; a run without any invocation
\* error has executed at most MaxTotalIterations steps, and once it has
\* executed that many it is over or the checks at the top of the loop end
\* it before another agent runs.
C35_StepsBoundedByTotalLimit ==
    /\ Cardinality({i \in 1..Len(steps) : steps[i].err = ""})
          <= config.Workflow.MaxTotalIterations
    /\ (/\ \A i \in 1..Len(steps) : steps[i].err = ""
        /\ Len(steps) = config.Workflow.MaxTotalIterations)
       => \/ pc # "loop"
          \/ (~agentRuns /\ (ENABLED Timeout \/ ENABLED IterationLimit))

\* a run without invocation errors that is ended by the total limit after
\* MaxTotalIterations steps, none of which took any time
C35_Witness ==
    /\ Len(steps) = config.Workflow.MaxTotalIterations
    /\ \A i \in 1..Len(steps) : steps[i].err = ""
    /\ elapsed = 0
    /\ pc # "loop"
    /\ ~result.Success
    /\ result.FailureReason = "iteration_limit_exceeded"
    /\ result.Error = "maximum total iterations (7) exceeded"

\* C36: error-recovery retries are bounded without the help of the timeout:
\* a recovery that sends the run back to the role that just failed, and that
\* took no time, counts against the iteration limits the top of the loop
\* checks, so that a run whose invocations all fail with a recoverable error
\* is ended by these limits after finitely many retries.
C36_RetryCountsAgainstLimits ==
    [][(/\ invocations' = invocations + 1
        /\ agentErr' # ""
        /\ pc' = "loop"
        /\ elapsed' = elapsed
        /\ state'.CurrentAgent = state.CurrentAgent)
       => (\/ state'.IterationCounts # state.IterationCounts
           \/ checkIterationLimits(config, state') # "")]_vars

(***************************************************************************)
(* A property of completed runs, checked under SpecReview.                 *)
(***************************************************************************)
\* C37: when a run ends complete, its last step is a successful step of the
\* TechLead, a successful step of the Engineering Manager and after it a
\* successful step of the Engineer came before, and CompletedPhases holds
\* the three roles; QA need not be among them.
C37_CompleteAfterManagerAndEngineer ==
    (\E k \in 1..Len(result.CompletedPhases) :
        result.CompletedPhases[k] = "workflow_complete")
    => /\ steps # <<>>
       /\ steps[Len(steps)].role = AgentRoleTechLead
       /\ steps[Len(steps)].err = ""
       /\ steps[Len(steps)].res.Success
       /\ \E i \in 1..Len(steps), j \in 1..Len(steps) :
             /\ i < j
             /\ j < Len(steps)
             /\ steps[i].role = AgentRoleEM
             /\ steps[i].err = ""
             /\ steps[i].res.Success
             /\ steps[j].role = AgentRoleEngineer
             /\ steps[j].err = ""
             /\ steps[j].res.Success
       /\ \A role \in {AgentRoleEM, AgentRoleEngineer, AgentRoleTechLead} :
             \E k \in 1..Len(result.CompletedPhases) : result.CompletedPhases[k] = role

\* a complete run in which QA never ran: the Engineer succeeded without
\* modified files and was routed to the TechLead
C37_Witness ==
    /\ pc = "done"
    /\ result.Success
    /\ \E k \in 1..Len(result.CompletedPhases) :
          result.CompletedPhases[k] = "workflow_complete"
    /\ \A i \in 1..Len(steps) : steps[i].role # AgentRoleQA
    /\ \A k \in 1..Len(result.CompletedPhases) : result.CompletedPhases[k] # AgentRoleQA
    /\ \E i \in 1..Len(steps) :
          /\ steps[i].role = AgentRoleEngineer
          /\ steps[i].res.Success
          /\ steps[i].res.FilesModified = <<>>
    /\ \E i \in 1..Len(steps) : steps[i].role = AgentRoleEM /\ ~steps[i].res.Success

(***************************************************************************)
(* A property of the health check, checked under Spec.                     *)
(***************************************************************************)
\* C38: when the history holds at least four transitions and its last three
\* are the same transition of a role to itself, the next invocation that
\* returns a result ends the run failed with workflow_health_failed and
\* records no transition.
C38_SelfRetriesAreLoop ==
    [][(/\ invocations' = invocations + 1
        /\ agentErr' = ""
        /\ Len(state.WorkflowHistory) >= 4
        /\ \E role \in AgentRoles :
              \A i \in (Len(state.WorkflowHistory) - 2)..Len(state.WorkflowHistory) :
                 /\ state.WorkflowHistory[i].FromAgent = role
                 /\ state.WorkflowHistory[i].ToAgent = role)
       => (/\ pc' = "finalize"
           /\ ~result'.Success
           /\ result'.FailureReason = "workflow_health_failed"
           /\ state' = state)]_vars

\* the engineer was routed to itself three times after the manager's plan,
\* and its fourth step ended the run with the health failure
C38_Witness ==
    /\ pc = "finalize"
    /\ result.FailureReason = "workflow_health_failed"
    /\ agentErr = ""
    /\ Len(state.WorkflowHistory) = 4
    /\ state.WorkflowHistory[1].FromAgent = AgentRoleEM
    /\ \A i \in 2..4 :
          /\ state.WorkflowHistory[i].FromAgent = AgentRoleEngineer
          /\ state.WorkflowHistory[i].ToAgent = AgentRoleEngineer
          /\ ~HasPrefix(state.WorkflowHistory[i].Reason, "Error recovery: ")
    /\ steps[Len(steps)].role = AgentRoleEngineer
    /\ state.IterationCounts[AgentRoleEngineer] = 3

(***************************************************************************)
(* A property of the failure reasons, checked under Spec.                  *)
(***************************************************************************)
\* C39: a run never carries the failure reason agent_unavailable,
\* command_restriction, filesystem_error or connection_failed: an invocation
\* error that categorizeFailure maps to one of them is recovered, the run
\* stays in the loop with a recovery transition recorded, and an invocation
\* error that ends the run is categorised configuration_error, git_error or
\* unknown_error.
C39_RecoveredCategoriesNeverReported ==
    [][/\ result'.FailureReason \notin
             {"agent_unavailable", "command_restriction", "filesystem_error",
              "connection_failed"}
       /\ (invocations' = invocations + 1 /\ agentErr' # "")
          => IF categorizeFailure(agentErr') \in
                   {"agent_unavailable", "command_restriction", "filesystem_error",
                    "connection_failed"}
             THEN /\ pc' = "loop"
                  /\ result' = result
                  /\ Len(state'.WorkflowHistory) = Len(state.WorkflowHistory) + 1
                  /\ HasPrefix(state'.WorkflowHistory[Len(state'.WorkflowHistory)].Reason,
                               "Error recovery: ")
             ELSE pc' = "finalize"
                     => result'.FailureReason \in
                           {"configuration_error", "git_error", "unknown_error"}]_vars

\* a run that recovered from an error categorizeFailure calls a file-system
\* error and then failed on an error it could not recover from
C39_Witness ==
    /\ pc = "finalize"
    /\ ~result.Success
    /\ agentErr = "failed to get git diff: exit status 128"
    /\ result.FailureReason = "git_error"
    /\ \E i \in 1..Len(steps) :
          /\ steps[i].err # ""
          /\ categorizeFailure(steps[i].err) = "filesystem_error"
          /\ analyzeAndRecoverFromError(steps[i].err, state).CanRecover

=============================================================================
